---------------------------- MODULE Spec2Model ----------------------------
(***************************************************************************)
(* A model of drgn's DWARF index (src/drgn/dwarfindex.c): the ELF section  *)
(* reader, the relocator, the abbreviation compiler, the CU header reader, *)
(* the DIE indexer and the name hash table with its lookup.                *)
(*                                                                         *)
(* Memory is modelled as byte sequences (one per section); a C pointer is  *)
(* an offset into its section, so that s[p + 1] is the byte at pointer p.  *)
(***************************************************************************)
EXTENDS Integers, Sequences, FiniteSets, TLC

VARIABLES
    abbrev,   \* read_abbrev_decl: its locals while one declaration is compiled
    reloc,    \* apply_relocations: the target section and the loop position
    elf,      \* read_sections: the loop position and the sections found
    index,    \* the DwarfIndex object: files, CUs, die_hash, address_size
    init,     \* DwarfIndex_init / index_cu: the loop positions and locals
    finder,   \* DwarfIndex_find: each caller's position and last result
    hist      \* history: the iterations of the DIE loop made so far (read
              \* by the properties only)

vars == <<abbrev, reloc, elf, index, init, finder, hist>>

Idle == [pc |-> "idle"]

RECURSIVE Pow2(_)
Pow2(n) == IF n = 0 THEN 1 ELSE 2 * Pow2(n - 1)

(***************************************************************************)
(* Constants of <dwarf.h>.                                                 *)
(***************************************************************************)
DW_TAG_class_type == 2
DW_TAG_enumeration_type == 4
DW_TAG_compile_unit == 17
DW_TAG_structure_type == 19
DW_TAG_typedef == 22
DW_TAG_union_type == 23
DW_TAG_base_type == 36
DW_TAG_variable == 52

DW_AT_sibling == 1
DW_AT_name == 3
DW_AT_byte_size == 11
DW_AT_low_pc == 17
DW_AT_declaration == 60

DW_FORM_addr == 1
DW_FORM_block2 == 3
DW_FORM_block4 == 4
DW_FORM_data2 == 5
DW_FORM_data4 == 6
DW_FORM_data8 == 7
DW_FORM_string == 8
DW_FORM_block == 9
DW_FORM_block1 == 10
DW_FORM_data1 == 11
DW_FORM_flag == 12
DW_FORM_sdata == 13
DW_FORM_strp == 14
DW_FORM_udata == 15
DW_FORM_ref_addr == 16
DW_FORM_ref1 == 17
DW_FORM_ref2 == 18
DW_FORM_ref4 == 19
DW_FORM_ref8 == 20
DW_FORM_ref_udata == 21
DW_FORM_indirect == 22
DW_FORM_sec_offset == 23
DW_FORM_exprloc == 24
DW_FORM_flag_present == 25
DW_FORM_ref_sig8 == 32

(***************************************************************************)
(* The commands of an abbreviation's skip program.                         *)
(***************************************************************************)
ATTRIB_BLOCK1 == 243
ATTRIB_BLOCK2 == 244
ATTRIB_BLOCK4 == 245
ATTRIB_EXPRLOC == 246
ATTRIB_LEB128 == 247
ATTRIB_STRING == 248
ATTRIB_SIBLING_REF1 == 249
ATTRIB_SIBLING_REF2 == 250
ATTRIB_SIBLING_REF4 == 251
ATTRIB_SIBLING_REF8 == 252
ATTRIB_SIBLING_REF_UDATA == 253
ATTRIB_NAME_STRP == 254
ATTRIB_NAME_STRING == 255
ATTRIB_MIN_CMD == ATTRIB_BLOCK1

(***************************************************************************)
(* read_abbrev_decl.  A declaration is given decoded: its tag, its         *)
(* children byte and its (name, form) pairs, the terminating (0, 0) pair   *)
(* being the end of the list.  The local state is                          *)
(*   tag            the filtered tag,                                      *)
(*   cmds           the num_cmds bytes written so far,                     *)
(*   cmds_capacity  the size of the allocation,                            *)
(*   err            "" or the exception raised.                            *)
(***************************************************************************)
IndexedTags ==
    {DW_TAG_base_type, DW_TAG_class_type, DW_TAG_enumeration_type,
     DW_TAG_structure_type, DW_TAG_typedef, DW_TAG_union_type,
     DW_TAG_variable}

FilterTag(tag) == IF tag \notin IndexedTags THEN 0 ELSE tag

InitialCmdsCapacity == 8

AbbrevStart(tag) ==
    [tag |-> FilterTag(tag), cmds |-> <<>>,
     cmds_capacity |-> InitialCmdsCapacity, err |-> ""]

\* A faulty variant of AppendCmd: the buffer is grown only when it is full.
AppendCmdNoReserve(st, cmd) ==
    [st EXCEPT
        !.cmds_capacity = IF Len(st.cmds) >= @ THEN 2 * @ ELSE @,
        !.cmds = Append(@, cmd)]

\* append_cmd: grow the buffer when fewer than four bytes are left, then write.
AppendCmd(st, cmd) ==
    [st EXCEPT
        !.cmds_capacity = IF Len(st.cmds) + 3 >= @ THEN 2 * @ ELSE @,
        !.cmds = Append(@, cmd)]

\* A faulty variant of Coalesce: the sum is stored without the test against
\* ATTRIB_MIN_CMD, so a sum of 243 or more becomes a command or wraps.
CoalesceNoCarry(st, cmd) ==
    LET n == Len(st.cmds) IN
    IF n # 0 /\ st.cmds[n] < ATTRIB_MIN_CMD
    THEN [st EXCEPT !.cmds[n] = (@ + cmd) % 256]
    ELSE AppendCmd(st, cmd)

\* The coalescing of a fixed-length skip into the command before it.
Coalesce(st, cmd) ==
    LET n == Len(st.cmds) IN
    IF n # 0 /\ st.cmds[n] < ATTRIB_MIN_CMD
    THEN IF st.cmds[n] + cmd < ATTRIB_MIN_CMD
         THEN [st EXCEPT !.cmds[n] = @ + cmd]
         ELSE AppendCmd([st EXCEPT !.cmds[n] = ATTRIB_MIN_CMD - 1],
                        (st.cmds[n] + cmd - ATTRIB_MIN_CMD + 1) % 256)
    ELSE AppendCmd(st, cmd)

\* switch (form)
FormCmd(st, form, address_size, is_64_bit) ==
    CASE form = DW_FORM_addr -> Coalesce(st, address_size)
      [] form \in {DW_FORM_data1, DW_FORM_ref1, DW_FORM_flag} -> Coalesce(st, 1)
      [] form \in {DW_FORM_data2, DW_FORM_ref2} -> Coalesce(st, 2)
      [] form \in {DW_FORM_data4, DW_FORM_ref4} -> Coalesce(st, 4)
      [] form \in {DW_FORM_data8, DW_FORM_ref8, DW_FORM_ref_sig8} -> Coalesce(st, 8)
      [] form = DW_FORM_block1 -> AppendCmd(st, ATTRIB_BLOCK1)
      [] form = DW_FORM_block2 -> AppendCmd(st, ATTRIB_BLOCK2)
      [] form = DW_FORM_block4 -> AppendCmd(st, ATTRIB_BLOCK4)
      [] form = DW_FORM_exprloc -> AppendCmd(st, ATTRIB_EXPRLOC)
      [] form \in {DW_FORM_sdata, DW_FORM_udata, DW_FORM_ref_udata} ->
            AppendCmd(st, ATTRIB_LEB128)
      [] form \in {DW_FORM_ref_addr, DW_FORM_sec_offset, DW_FORM_strp} ->
            Coalesce(st, IF is_64_bit THEN 8 ELSE 4)
      [] form = DW_FORM_string -> AppendCmd(st, ATTRIB_STRING)
      [] form = DW_FORM_flag_present -> st
      [] form = DW_FORM_indirect -> [st EXCEPT !.err = "NotImplementedError"]
      [] OTHER -> [st EXCEPT !.err = "DwarfFormatError"]

SiblingCmd(form) ==
    CASE form = DW_FORM_ref1 -> ATTRIB_SIBLING_REF1
      [] form = DW_FORM_ref2 -> ATTRIB_SIBLING_REF2
      [] form = DW_FORM_ref4 -> ATTRIB_SIBLING_REF4
      [] form = DW_FORM_ref8 -> ATTRIB_SIBLING_REF8
      [] form = DW_FORM_ref_udata -> ATTRIB_SIBLING_REF_UDATA
      [] OTHER -> 0

\* A faulty variant of DeclarationTag: the test for DW_TAG_variable is missing.
DeclarationTagAnyTag(st, name) ==
    IF name = DW_AT_declaration THEN [st EXCEPT !.tag = 0] ELSE st

\* The declaration test of the attribute loop.
DeclarationTag(st, name) ==
    IF name = DW_AT_declaration /\ st.tag # DW_TAG_variable
    THEN [st EXCEPT !.tag = 0] ELSE st

\* One iteration of the attribute loop, for a pair other than (0, 0).
AbbrevAttr(st, name, form, address_size, is_64_bit) ==
    IF name = DW_AT_sibling /\ SiblingCmd(form) # 0
    THEN AppendCmd(st, SiblingCmd(form))
    ELSE IF name = DW_AT_name /\ st.tag # 0 /\ form = DW_FORM_strp
    THEN AppendCmd(st, ATTRIB_NAME_STRP)
    ELSE IF name = DW_AT_name /\ st.tag # 0 /\ form = DW_FORM_string
    THEN AppendCmd(st, ATTRIB_NAME_STRING)
    ELSE FormCmd(DeclarationTag(st, name), form, address_size, is_64_bit)

\* The three bytes written when the (0, 0) pair is read.
AbbrevFinish(st, children) ==
    [st EXCEPT !.cmds = @ \o <<0, st.tag % 256, children>>]

RECURSIVE AbbrevAttrs(_, _, _, _)
AbbrevAttrs(st, attrs, address_size, is_64_bit) ==
    IF attrs = <<>> \/ st.err # "" THEN st
    ELSE AbbrevAttrs(AbbrevAttr(st, Head(attrs)[1], Head(attrs)[2],
                                address_size, is_64_bit),
                     Tail(attrs), address_size, is_64_bit)

\* The whole of read_abbrev_decl for one declaration with a non-zero code.
ReadAbbrevDecl(decl, address_size, is_64_bit) ==
    LET st == AbbrevAttrs(AbbrevStart(decl.tag), decl.attrs,
                          address_size, is_64_bit)
    IN  IF st.err # "" THEN st ELSE AbbrevFinish(st, decl.children)

(***************************************************************************)
(* The skip program as index_cu reads it: commands up to the first zero    *)
(* byte, then the tag byte, then the children byte.                        *)
(***************************************************************************)
RECURSIVE CmdsEndFrom(_, _)
CmdsEndFrom(cmds, i) ==
    IF i > Len(cmds) \/ cmds[i] = 0 THEN i ELSE CmdsEndFrom(cmds, i + 1)

\* The index of the zero byte that ends the command loop.
CmdsEnd(cmds) == CmdsEndFrom(cmds, 1)

\* tag = *cmdp++ after the command loop
CmdsTag(cmds) == cmds[CmdsEnd(cmds) + 1]

(***************************************************************************)
(* The abbreviation compiler run on its own: one declaration, one          *)
(* attribute pair per step.                                                *)
(***************************************************************************)
MaxAttrs == 3

\* address_size and is_64_bit of the CUs the declarations are compiled for
AbbrevCus == {<<8, FALSE>>, <<121, TRUE>>}

AbbrevTags == {DW_TAG_structure_type, DW_TAG_variable, DW_TAG_compile_unit}

AttrPairs ==
    {<<DW_AT_sibling, DW_FORM_ref4>>, <<DW_AT_sibling, DW_FORM_data4>>,
     <<DW_AT_name, DW_FORM_strp>>, <<DW_AT_name, DW_FORM_string>>,
     <<DW_AT_declaration, DW_FORM_flag_present>>,
     <<DW_AT_declaration, DW_FORM_flag>>,
     <<DW_AT_low_pc, DW_FORM_addr>>, <<DW_AT_byte_size, DW_FORM_data1>>,
     <<DW_AT_byte_size, DW_FORM_udata>>, <<DW_AT_byte_size, DW_FORM_indirect>>,
     <<DW_AT_byte_size, DW_FORM_block>>}

SeqsUpTo(S, n) == UNION {[1..k -> S] : k \in 0..n}

AbbrevInputs ==
    [decl : [tag : AbbrevTags, children : {0, 1},
             attrs : SeqsUpTo(AttrPairs, MaxAttrs)],
     cu : AbbrevCus]

NoAbbrevState == [tag |-> 0, cmds |-> <<>>, cmds_capacity |-> 0, err |-> ""]

InitAbbrev ==
    /\ \E in \in AbbrevInputs :
          abbrev = [pc |-> "header", decl |-> in.decl,
                    address_size |-> in.cu[1], is_64_bit |-> in.cu[2],
                    k |-> 0, st |-> NoAbbrevState]
    /\ reloc = Idle /\ elf = Idle /\ index = Idle /\ init = Idle
    /\ finder = Idle /\ hist = <<>>

\* The tag and the children byte are read and the buffer is allocated.
AbbrevHeader ==
    /\ abbrev.pc = "header"
    /\ abbrev' = [abbrev EXCEPT !.pc = "attrs",
                                !.st = AbbrevStart(abbrev.decl.tag)]
    /\ UNCHANGED <<reloc, elf, index, init, finder, hist>>

\* One (name, form) pair is read and compiled.
AbbrevAttrStep ==
    /\ abbrev.pc = "attrs"
    /\ abbrev.k < Len(abbrev.decl.attrs)
    /\ LET pair == abbrev.decl.attrs[abbrev.k + 1]
           st == AbbrevAttr(abbrev.st, pair[1], pair[2],
                            abbrev.address_size, abbrev.is_64_bit)
       IN  abbrev' = [abbrev EXCEPT
                        !.k = @ + 1, !.st = st,
                        !.pc = IF st.err # "" THEN "error" ELSE "attrs"]
    /\ UNCHANGED <<reloc, elf, index, init, finder, hist>>

\* The (0, 0) pair is read: the terminator, the tag and the children byte.
AbbrevEnd ==
    /\ abbrev.pc = "attrs"
    /\ abbrev.k = Len(abbrev.decl.attrs)
    /\ abbrev' = [abbrev EXCEPT
                     !.pc = "done",
                     !.st = AbbrevFinish(abbrev.st, abbrev.decl.children)]
    /\ UNCHANGED <<reloc, elf, index, init, finder, hist>>

NextAbbrev == AbbrevHeader \/ AbbrevAttrStep \/ AbbrevEnd

SpecAbbrev == InitAbbrev /\ [][NextAbbrev]_vars

(***************************************************************************)
(* The abbreviation compiler run on long attribute lists: a pattern of     *)
(* pairs repeated up to MaxCmdAttrs pairs, so that the buffer (8 bytes at  *)
(* first) is doubled to 16 and to 32.                                      *)
(***************************************************************************)
MaxCmdAttrs == 30

\* Patterns whose pairs each append a command, alternate a skip with a
\* command, or all coalesce into skips of 242 and a remainder.
AttrPatterns ==
    {<< <<DW_AT_byte_size, DW_FORM_udata>> >>,
     << <<DW_AT_byte_size, DW_FORM_data1>>, <<DW_AT_name, DW_FORM_string>> >>,
     << <<DW_AT_low_pc, DW_FORM_addr>> >>,
     << <<DW_AT_declaration, DW_FORM_flag_present>> >>}

\* The first n pairs of the pattern p repeated.
Repeated(p, n) == [k \in 1..n |-> p[((k - 1) % Len(p)) + 1]]

LongAbbrevInputs ==
    {[decl |-> [tag |-> DW_TAG_variable, children |-> 1,
                attrs |-> Repeated(p, n)],
      cu |-> cu] : p \in AttrPatterns, n \in 0..MaxCmdAttrs, cu \in AbbrevCus}

InitCmds ==
    /\ \E in \in LongAbbrevInputs :
          abbrev = [pc |-> "header", decl |-> in.decl,
                    address_size |-> in.cu[1], is_64_bit |-> in.cu[2],
                    k |-> 0, st |-> NoAbbrevState]
    /\ reloc = Idle /\ elf = Idle /\ index = Idle /\ init = Idle
    /\ finder = Idle /\ hist = <<>>

SpecCmds == InitCmds /\ [][NextAbbrev]_vars

(***************************************************************************)
(* Properties of the abbreviation compiler.                                *)
(***************************************************************************)
AbbrevDone == abbrev.pc = "done"

HasDeclaration(attrs) == \E i \in 1..Len(attrs) : attrs[i][1] = DW_AT_declaration

\* The DIEs of a declaration are candidates for the hash when index_cu reads
\* a non-zero tag from its program.
Indexable(cmds) == CmdsTag(cmds) # 0

\* C4: once a declaration is compiled, if its attribute list holds a
\* DW_AT_declaration (of any form, before or after DW_AT_name) and its tag is
\* not DW_TAG_variable, the tag index_cu reads is 0, so that no DIE of it is
\* indexed; a DW_TAG_variable declaration keeps its tag, and its DW_AT_name
\* of form strp or string is still compiled to a name command.
C4_DeclarationNotIndexed ==
    AbbrevDone =>
        LET attrs == abbrev.decl.attrs
            cmds == abbrev.st.cmds
        IN  /\ (HasDeclaration(attrs) /\ abbrev.decl.tag # DW_TAG_variable)
                    => ~Indexable(cmds)
            /\ abbrev.decl.tag = DW_TAG_variable
                    => /\ CmdsTag(cmds) = DW_TAG_variable
                       /\ \A i \in 1..Len(attrs) :
                            attrs[i] \in {<<DW_AT_name, DW_FORM_strp>>,
                                          <<DW_AT_name, DW_FORM_string>>}
                            => \E j \in 1..CmdsEnd(cmds) - 1 :
                                 cmds[j] \in {ATTRIB_NAME_STRP, ATTRIB_NAME_STRING}

\* A structure_type declaration whose DW_AT_name comes first (and is compiled
\* to a name command) and whose DW_AT_declaration comes after it.
C4_Witness ==
    /\ AbbrevDone
    /\ abbrev.decl.tag = DW_TAG_structure_type
    /\ \E i, j \in 1..Len(abbrev.decl.attrs) :
          /\ i < j
          /\ abbrev.decl.attrs[i] = <<DW_AT_name, DW_FORM_strp>>
          /\ abbrev.decl.attrs[j][1] = DW_AT_declaration
    /\ abbrev.st.cmds[1] = ATTRIB_NAME_STRP

\* The size of a fixed-length form, 0 for any other form.
FixedFormSize(form, address_size, is_64_bit) ==
    CASE form = DW_FORM_addr -> address_size
      [] form \in {DW_FORM_data1, DW_FORM_ref1, DW_FORM_flag} -> 1
      [] form \in {DW_FORM_data2, DW_FORM_ref2} -> 2
      [] form \in {DW_FORM_data4, DW_FORM_ref4} -> 4
      [] form \in {DW_FORM_data8, DW_FORM_ref8, DW_FORM_ref_sig8} -> 8
      [] form \in {DW_FORM_ref_addr, DW_FORM_sec_offset, DW_FORM_strp} ->
            IF is_64_bit THEN 8 ELSE 4
      [] OTHER -> 0

\* The command (243 or more) that a pair is to emit, 0 when it emits none.
\* `named` tells whether the tag is still indexable when the pair is read.
PairCommand(pair, named) ==
    CASE pair[1] = DW_AT_sibling /\ pair[2] = DW_FORM_ref1 -> ATTRIB_SIBLING_REF1
      [] pair[1] = DW_AT_sibling /\ pair[2] = DW_FORM_ref2 -> ATTRIB_SIBLING_REF2
      [] pair[1] = DW_AT_sibling /\ pair[2] = DW_FORM_ref4 -> ATTRIB_SIBLING_REF4
      [] pair[1] = DW_AT_sibling /\ pair[2] = DW_FORM_ref8 -> ATTRIB_SIBLING_REF8
      [] pair[1] = DW_AT_sibling /\ pair[2] = DW_FORM_ref_udata ->
            ATTRIB_SIBLING_REF_UDATA
      [] pair[1] = DW_AT_name /\ named /\ pair[2] = DW_FORM_strp -> ATTRIB_NAME_STRP
      [] pair[1] = DW_AT_name /\ named /\ pair[2] = DW_FORM_string ->
            ATTRIB_NAME_STRING
      [] pair[2] = DW_FORM_block1 -> ATTRIB_BLOCK1
      [] pair[2] = DW_FORM_block2 -> ATTRIB_BLOCK2
      [] pair[2] = DW_FORM_block4 -> ATTRIB_BLOCK4
      [] pair[2] = DW_FORM_exprloc -> ATTRIB_EXPRLOC
      [] pair[2] \in {DW_FORM_sdata, DW_FORM_udata, DW_FORM_ref_udata} ->
            ATTRIB_LEB128
      [] pair[2] = DW_FORM_string -> ATTRIB_STRING
      [] OTHER -> 0

\* The only run of literals in 1..242 that sums to n and in which every
\* literal followed by another one is 242.
RECURSIVE MaximalLiterals(_)
MaximalLiterals(n) ==
    IF n = 0 THEN <<>>
    ELSE IF n > ATTRIB_MIN_CMD - 1
         THEN <<ATTRIB_MIN_CMD - 1>> \o MaximalLiterals(n - (ATTRIB_MIN_CMD - 1))
         ELSE <<n>>

\* The program the specification asks for.  `tag` is the filtered tag when
\* the pair is read (a DW_AT_declaration clears it unless it is
\* DW_TAG_variable); `run` is the number of bytes of the fixed-length forms
\* read since the last command.
RECURSIVE CoalescedProgram(_, _, _, _, _)
CoalescedProgram(attrs, tag, run, address_size, is_64_bit) ==
    IF attrs = <<>> THEN MaximalLiterals(run)
    ELSE LET pair == Head(attrs)
             cmd == PairCommand(pair, tag # 0)
             tagAfter == IF pair[1] = DW_AT_declaration /\ tag # DW_TAG_variable
                         THEN 0 ELSE tag
         IN  IF cmd # 0
             THEN MaximalLiterals(run) \o <<cmd>> \o
                  CoalescedProgram(Tail(attrs), tagAfter, 0,
                                   address_size, is_64_bit)
             ELSE CoalescedProgram(Tail(attrs), tagAfter,
                                   run + FixedFormSize(pair[2], address_size,
                                                       is_64_bit),
                                   address_size, is_64_bit)

C13_WritesWithinCapacity ==
    /\ abbrev.pc \in {"attrs", "done", "error"} =>
          Len(abbrev.st.cmds) <= abbrev.st.cmds_capacity
    /\ abbrev.pc = "attrs" =>
          Len(abbrev.st.cmds) + 3 <= abbrev.st.cmds_capacity

\* A declaration is compiled whose buffer was doubled and whose children
\* byte is the last byte of the allocation.
C13_Witness ==
    /\ AbbrevDone
    /\ abbrev.st.cmds_capacity = 2 * InitialCmdsCapacity
    /\ Len(abbrev.st.cmds) = abbrev.st.cmds_capacity

(***************************************************************************)
(* apply_relocations.  The target section is a byte sequence; a relocation *)
(* entry is given decoded as [r_offset, r_sym, r_type, r_addend]; the      *)
(* symbol table is the sequence of the st_value of its entries.  A 64-bit  *)
(* value (st_value, r_addend) is the sequence of its 8 bytes, low byte     *)
(* first.  Offsets and sizes are size_t values of SizeBits bits.           *)
(***************************************************************************)
SizeBits == 6
SIZE_MAX == Pow2(SizeBits) - 1

R_X86_64_NONE == 0
R_X86_64_64 == 1
R_X86_64_PC32 == 2
R_X86_64_32 == 10

SizeofRela == 24
SizeofSym == 24

\* The sum of two 64-bit values modulo 2^64, byte by byte with carry.
RECURSIVE AddBytes(_, _, _)
AddBytes(a, b, carry) ==
    IF a = <<>> THEN <<>>
    ELSE <<(Head(a) + Head(b) + carry) % 256>> \o
         AddBytes(Tail(a), Tail(b), (Head(a) + Head(b) + carry) \div 256)

Add64(a, b) == AddBytes(a, b, 0)

\* *(uintN_t *)p = value for the pointer p = buffer + offset: the bytes that
\* fall inside the section.
StoreBytes(section, offset, bytes) ==
    [k \in 1..Len(section) |->
        IF k - 1 >= offset /\ k - 1 < offset + Len(bytes)
        THEN bytes[k - offset] ELSE section[k]]

\* A faulty variant of RelocValue: the addend is left out.
RelocValueNoAddend(syms, rel) == syms[rel.r_sym + 1]

\* syms[r_sym].st_value + relocs[i].r_addend
RelocValue(syms, rel) == Add64(syms[rel.r_sym + 1], rel.r_addend)

\* A faulty variant of RelocOffsetBad: only the wrapped sum is tested.
RelocOffsetBadWrapped(rel, width, size) ==
    (rel.r_offset + width) % (SIZE_MAX + 1) > size

\* r_offset > SIZE_MAX - sizeof(uintN_t) || r_offset + sizeof(uintN_t) > size
RelocOffsetBad(rel, width, size) ==
    \/ rel.r_offset > SIZE_MAX - width
    \/ (rel.r_offset + width) % (SIZE_MAX + 1) > size

\* The bytes stored for an entry of type R_X86_64_32 (4) or R_X86_64_64 (8).
RelocWidth(r_type) == IF r_type = R_X86_64_32 THEN 4 ELSE 8

\* One iteration of the loop over the relocation entries: the new section,
\* the exception raised ("" when none) and the store made (<<>> when none).
ApplyRelocation(section, rel, syms, symtab_size) ==
    LET num_syms == symtab_size \div SizeofRela
        width == RelocWidth(rel.r_type)
    IN  IF rel.r_type = R_X86_64_NONE
        THEN [section |-> section, err |-> "", store |-> <<>>]
        ELSE IF rel.r_type \notin {R_X86_64_32, R_X86_64_64}
        THEN [section |-> section, err |-> "NotImplementedError", store |-> <<>>]
        ELSE IF rel.r_sym >= num_syms
        THEN [section |-> section, err |-> "ElfFormatError", store |-> <<>>]
        ELSE IF RelocOffsetBad(rel, width, Len(section))
        THEN [section |-> section, err |-> "ElfFormatError", store |-> <<>>]
        ELSE [section |-> StoreBytes(section, rel.r_offset,
                                     SubSeq(RelocValue(syms, rel), 1, width)),
              err |-> "",
              store |-> <<[offset |-> rel.r_offset, size |-> width]>>]

(***************************************************************************)
(* The relocator run on one section.                                       *)
(***************************************************************************)
MaxRelocs == 2
SectionSize == 12

Value64(lo, hi) == <<lo, 0, 0, 0, hi, 0, 0, 0>>
MinusOne64 == <<255, 255, 255, 255, 255, 255, 255, 255>>

\* Two symbols; the second has a value of more than 32 bits.
RelocSyms == <<Value64(16, 0), Value64(32, 1)>>

\* The size of .symtab: two entries, with or without trailing bytes.
SymtabSizes == {2 * SizeofSym, 2 * SizeofSym + 16}

\* Offsets at both sides of the last place where 8 and 4 bytes fit, the
\* last byte of the section, and an offset whose sum with a width wraps.
RelocOffsets ==
    {0, SectionSize - 8, SectionSize - 7, SectionSize - 4, SectionSize - 1,
     SIZE_MAX - 3}

RelocEntries ==
    {[r_offset |-> 0, r_sym |-> 0, r_type |-> t, r_addend |-> Value64(0, 0)] :
        t \in {R_X86_64_NONE, R_X86_64_PC32}}
    \cup [r_offset : RelocOffsets, r_sym : 0..2,
          r_type : {R_X86_64_32, R_X86_64_64},
          r_addend : {Value64(1, 0), MinusOne64}]

InitReloc ==
    /\ \E relocs \in SeqsUpTo(RelocEntries, MaxRelocs), size \in SymtabSizes :
          reloc = [pc |-> "loop", section |-> [k \in 1..SectionSize |-> 170],
                   relocs |-> relocs, syms |-> RelocSyms,
                   symtab_size |-> size, i |-> 0, err |-> ""]
    /\ abbrev = Idle /\ elf = Idle /\ index = Idle /\ init = Idle
    /\ finder = Idle /\ hist = <<>>

\* One entry is applied; hist records the store it makes.
RelocStep ==
    /\ reloc.pc = "loop"
    /\ reloc.i < Len(reloc.relocs)
    /\ LET r == ApplyRelocation(reloc.section, reloc.relocs[reloc.i + 1],
                                reloc.syms, reloc.symtab_size)
       IN  /\ reloc' = [reloc EXCEPT
                          !.section = r.section, !.err = r.err,
                          !.pc = IF r.err # "" THEN "error" ELSE "loop",
                          !.i = IF r.err # "" THEN @ ELSE @ + 1]
           /\ hist' = hist \o [k \in 1..Len(r.store) |->
                                 [entry |-> reloc.i + 1,
                                  offset |-> r.store[k].offset,
                                  size |-> r.store[k].size]]
    /\ UNCHANGED <<abbrev, elf, index, init, finder>>

\* All entries are applied: apply_relocations returns 0.
RelocReturn ==
    /\ reloc.pc = "loop"
    /\ reloc.i = Len(reloc.relocs)
    /\ reloc' = [reloc EXCEPT !.pc = "done"]
    /\ UNCHANGED <<abbrev, elf, index, init, finder, hist>>

NextReloc == RelocStep \/ RelocReturn

SpecReloc == InitReloc /\ [][NextReloc]_vars

(***************************************************************************)
(* Properties of the relocator.                                            *)
(***************************************************************************)
IsStoring(rel) == rel.r_type \in {R_X86_64_32, R_X86_64_64}

\* The bytes the claim expects at the offset of an entry.
ExpectedBytes(rel) ==
    SubSeq(Add64(reloc.syms[rel.r_sym + 1], rel.r_addend), 1,
           IF rel.r_type = R_X86_64_32 THEN 4 ELSE 8)

BytesAt(section, offset, n) ==
    [k \in 1..n |-> section[offset + k]]

\* C6 as stated: after a successful return the bytes at the offset of every
\* entry of type R_X86_64_32 or R_X86_64_64 are its value, whether or not
\* the ranges of the entries overlap.
C6_EveryEntryHoldsItsValue ==
    reloc.pc = "done" =>
        \A j \in 1..Len(reloc.relocs) :
            IsStoring(reloc.relocs[j]) =>
                BytesAt(reloc.section, reloc.relocs[j].r_offset,
                        RelocWidth(reloc.relocs[j].r_type))
                    = ExpectedBytes(reloc.relocs[j])

\* C6 amended: after a successful return every byte in the range of an entry
\* of type R_X86_64_32 or R_X86_64_64 that no later such entry covers is the
\* byte of that entry's value (st_value + r_addend, low byte first, 4 or 8
\* bytes); a byte covered by several entries holds the last one's.
C6_LastEntryWins ==
    reloc.pc = "done" =>
        \A j \in 1..Len(reloc.relocs) :
            IsStoring(reloc.relocs[j]) =>
                \A b \in 0..RelocWidth(reloc.relocs[j].r_type) - 1 :
                    LET at == reloc.relocs[j].r_offset + b
                        later == {k \in j + 1..Len(reloc.relocs) :
                                    /\ IsStoring(reloc.relocs[k])
                                    /\ at >= reloc.relocs[k].r_offset
                                    /\ at < reloc.relocs[k].r_offset +
                                            RelocWidth(reloc.relocs[k].r_type)}
                    IN  later = {} =>
                            reloc.section[at + 1] =
                                ExpectedBytes(reloc.relocs[j])[b + 1]

\* Two entries of which the second overlaps the first without covering it,
\* applied with success.
C6_Witness ==
    /\ reloc.pc = "done"
    /\ Len(reloc.relocs) = 2
    /\ IsStoring(reloc.relocs[1]) /\ IsStoring(reloc.relocs[2])
    /\ reloc.relocs[1].r_type = R_X86_64_64
    /\ reloc.relocs[1].r_sym = 1
    /\ reloc.relocs[2].r_type = R_X86_64_32
    /\ reloc.relocs[2].r_offset = reloc.relocs[1].r_offset + 4

\* An entry the claim wants rejected: its range leaves the section or its
\* symbol index is not below the number of symbols.
MustReject(rel) ==
    /\ IsStoring(rel)
    /\ \/ rel.r_offset + RelocWidth(rel.r_type) > Len(reloc.section)
       \/ rel.r_sym >= reloc.symtab_size \div SizeofSym

\* C7: every store made lies inside the section, and an entry that must be
\* rejected ends the run with ElfFormatError without a store of its own.
C7_NoStoreOutsideSection ==
    /\ \A w \in 1..Len(hist) :
          hist[w].offset + hist[w].size <= Len(reloc.section)
    /\ \A j \in 1..Len(reloc.relocs) :
          (MustReject(reloc.relocs[j]) /\
           (j <= reloc.i \/ (j = reloc.i + 1 /\ reloc.pc # "loop")))
            => /\ reloc.pc = "error" /\ reloc.err = "ElfFormatError"
               /\ reloc.i = j - 1
               /\ \A w \in 1..Len(hist) : hist[w].entry # j

\* An R_X86_64_64 entry at the last byte of the section, rejected after an
\* earlier entry was applied.
C7_Witness ==
    /\ reloc.pc = "error" /\ reloc.i = 1 /\ Len(hist) = 1
    /\ reloc.relocs[2].r_type = R_X86_64_64
    /\ reloc.relocs[2].r_sym < 2
    /\ reloc.relocs[2].r_offset = Len(reloc.section) - 1

(***************************************************************************)
(* read_sections, from the first loop over the section headers on (the ELF *)
(* header is valid and the section name string table is located).  A       *)
(* section header is given decoded; the string table is a byte sequence.   *)
(* A struct section is [shdr_index, buffer, size], buffer being the offset *)
(* of the section in the file, or NULL.                                    *)
(***************************************************************************)
SHT_PROGBITS == 1
SHT_SYMTAB == 2
SHT_RELA == 4

DEBUG_ABBREV == 0
DEBUG_INFO == 1
DEBUG_STR == 2
NUM_DEBUG_SECTIONS == 3

NULL == -1

NoSection == [shdr_index |-> 0, buffer |-> NULL, size |-> 0]

\* ".debug_abbrev", ".debug_info", ".debug_str" in ASCII
NameDebugAbbrev == <<46, 100, 101, 98, 117, 103, 95, 97, 98, 98, 114, 101, 118>>
NameDebugInfo == <<46, 100, 101, 98, 117, 103, 95, 105, 110, 102, 111>>
NameDebugStr == <<46, 100, 101, 98, 117, 103, 95, 115, 116, 114>>

\* The NUL-terminated string at offset p of the byte sequence s (up to the
\* end of s when no NUL follows).
RECURSIVE CStr(_, _)
CStr(s, p) ==
    IF p >= Len(s) \/ s[p + 1] = 0 THEN <<>>
    ELSE <<s[p + 1]>> \o CStr(s, p + 1)

\* validate_shdr
ShdrBeyondEOF(shdr, file_size) ==
    \/ shdr.sh_offset > SIZE_MAX - shdr.sh_size
    \/ shdr.sh_offset + shdr.sh_size > file_size

\* The section a header of the first loop is stored in: "symtab", the number
\* of a debug section, or "none" for a header that is passed over.
SectionSlot(shdr, shstrtab) ==
    IF shdr.sh_type = SHT_PROGBITS
    THEN IF shdr.sh_name = 0 \/ shdr.sh_name >= Len(shstrtab) THEN "none"
         ELSE LET max_name_len == Len(shstrtab) - shdr.sh_name
                  name == CStr(shstrtab, shdr.sh_name)
              IN  IF max_name_len > Len(NameDebugAbbrev) /\ name = NameDebugAbbrev
                  THEN "abbrev"
                  ELSE IF max_name_len > Len(NameDebugInfo) /\ name = NameDebugInfo
                  THEN "info"
                  ELSE IF max_name_len > Len(NameDebugStr) /\ name = NameDebugStr
                  THEN "str"
                  ELSE "none"
    ELSE IF shdr.sh_type = SHT_SYMTAB THEN "symtab"
    ELSE "none"

SlotNumber(slot) ==
    CASE slot = "abbrev" -> DEBUG_ABBREV
      [] slot = "info" -> DEBUG_INFO
      [] slot = "str" -> DEBUG_STR

SectionOf(i, shdr) ==
    [shdr_index |-> i, buffer |-> shdr.sh_offset, size |-> shdr.sh_size]

\* A faulty variant of ReadSection: a symbol table already found is kept.
ReadSectionKeepFirst(st, i) ==
    LET shdr == st.shdrs[i + 1]
        slot == SectionSlot(shdr, st.shstrtab)
    IN  IF slot = "none" \/ (slot = "symtab" /\ st.symtab.buffer # NULL)
        THEN [st EXCEPT !.i = i + 1]
        ELSE IF ShdrBeyondEOF(shdr, st.file_size)
        THEN [st EXCEPT !.pc = "error", !.err = "ElfFormatError"]
        ELSE IF slot = "symtab"
        THEN [st EXCEPT !.i = i + 1, !.symtab = SectionOf(i, shdr)]
        ELSE [st EXCEPT !.i = i + 1,
                        !.debug_sections[SlotNumber(slot)] = SectionOf(i, shdr)]

\* One iteration of the first loop, for section header i (from 0).
ReadSection(st, i) ==
    LET shdr == st.shdrs[i + 1]
        slot == SectionSlot(shdr, st.shstrtab)
    IN  IF slot = "none" THEN [st EXCEPT !.i = i + 1]
        ELSE IF ShdrBeyondEOF(shdr, st.file_size)
        THEN [st EXCEPT !.pc = "error", !.err = "ElfFormatError"]
        ELSE IF slot = "symtab"
        THEN [st EXCEPT !.i = i + 1, !.symtab = SectionOf(i, shdr)]
        ELSE [st EXCEPT !.i = i + 1,
                        !.debug_sections[SlotNumber(slot)] = SectionOf(i, shdr)]

\* The tests between the two loops.
MissingSection(st) ==
    \/ st.symtab.buffer = NULL
    \/ \E j \in 0..NUM_DEBUG_SECTIONS - 1 : st.debug_sections[j].buffer = NULL

\* The debug sections that header shdr relocates: the loop over j stops at
\* the first one, NUM_DEBUG_SECTIONS standing for none.
RelaTarget(st, shdr) ==
    LET js == {j \in 0..NUM_DEBUG_SECTIONS - 1 :
                 shdr.sh_info = st.debug_sections[j].shdr_index}
    IN  IF js = {} THEN NUM_DEBUG_SECTIONS
        ELSE CHOOSE j \in js : \A k \in js : j <= k

\* One iteration of the second loop, for section header i (from 0).
ReadRelaSection(st, i) ==
    LET shdr == st.shdrs[i + 1]
        j == RelaTarget(st, shdr)
    IN  IF shdr.sh_type # SHT_RELA \/ j = NUM_DEBUG_SECTIONS
        THEN [st EXCEPT !.i = i + 1]
        ELSE IF shdr.sh_link # st.symtab.shdr_index
        THEN [st EXCEPT !.pc = "error", !.err = "ElfFormatError"]
        ELSE IF ShdrBeyondEOF(shdr, st.file_size)
        THEN [st EXCEPT !.pc = "error", !.err = "ElfFormatError"]
        ELSE [st EXCEPT !.i = i + 1, !.rela_sections[j] = SectionOf(i, shdr)]

(***************************************************************************)
(* The section reader run on one file.                                     *)
(***************************************************************************)
MaxSections == 5
ElfFileSize == 60

\* "\0.debug_abbrev\0.debug_info\0.debug_str\0": the names are at 1, 15, 27.
Shstrtab ==
    <<0>> \o NameDebugAbbrev \o <<0>> \o NameDebugInfo \o <<0>> \o
    NameDebugStr \o <<0>>

SectionKinds == {"symtabA", "symtabB", "abbrev", "info", "str", "strEOF"}

\* The header of a section of the given kind placed as header number i.
KindShdr(kind, i) ==
    [sh_type |-> IF kind \in {"symtabA", "symtabB"} THEN SHT_SYMTAB
                 ELSE SHT_PROGBITS,
     sh_name |-> CASE kind = "abbrev" -> 1
                   [] kind = "info" -> 15
                   [] kind \in {"str", "strEOF"} -> 27
                   [] OTHER -> 0,
     sh_offset |-> IF kind = "strEOF" THEN ElfFileSize - 4 ELSE 8 * i,
     sh_size |-> IF kind = "symtabB" THEN 6 ELSE 8,
     sh_link |-> 0, sh_info |-> 0]

RelaShdr(info, link) ==
    [sh_type |-> SHT_RELA, sh_name |-> 0, sh_offset |-> 48, sh_size |-> 4,
     sh_link |-> link, sh_info |-> info]

\* The sections of the file: each kind at most once, in any order.
SectionLayouts ==
    {s \in SeqsUpTo(SectionKinds, MaxSections) :
        \A a, b \in 1..Len(s) : a # b => s[a] # s[b]}

ShdrsOf(layout) == [k \in 1..Len(layout) |-> KindShdr(layout[k], k - 1)]

\* The section headers of the file: those of a layout, alone or followed by
\* one SHT_RELA header that names any header as its target and any symbol
\* table header (or header 0) as its symbol table.
ElfInputs ==
    {ShdrsOf(l) : l \in SectionLayouts}
    \cup UNION {{Append(ShdrsOf(l), RelaShdr(info, link)) :
                   info \in 0..Len(l) - 1,
                   link \in {0} \cup {k - 1 : k \in {k \in 1..Len(l) :
                                    l[k] \in {"symtabA", "symtabB"}}}} :
                l \in SectionLayouts}

InitElf ==
    /\ \E shdrs \in ElfInputs :
          elf = [pc |-> "pass1", shdrs |-> shdrs, shstrtab |-> Shstrtab,
                 file_size |-> ElfFileSize, i |-> 0, err |-> "",
                 symtab |-> NoSection,
                 debug_sections |-> [j \in 0..NUM_DEBUG_SECTIONS - 1 |-> NoSection],
                 rela_sections |-> [j \in 0..NUM_DEBUG_SECTIONS - 1 |-> NoSection]]
    /\ abbrev = Idle /\ reloc = Idle /\ index = Idle /\ init = Idle
    /\ finder = Idle /\ hist = <<>>

\* for (i = 0; i < ehdr->e_shnum; i++), first loop
SectionStep ==
    /\ elf.pc = "pass1"
    /\ elf.i < Len(elf.shdrs)
    /\ elf' = ReadSection(elf, elf.i)
    /\ UNCHANGED <<abbrev, reloc, index, init, finder, hist>>

\* The first loop is over: a missing section is an error.
SectionsFound ==
    /\ elf.pc = "pass1"
    /\ elf.i = Len(elf.shdrs)
    /\ elf' = IF MissingSection(elf)
              THEN [elf EXCEPT !.pc = "error", !.err = "DwarfFormatError"]
              ELSE [elf EXCEPT !.pc = "pass2", !.i = 0]
    /\ UNCHANGED <<abbrev, reloc, index, init, finder, hist>>

\* for (i = 0; i < ehdr->e_shnum; i++), second loop
RelaStep ==
    /\ elf.pc = "pass2"
    /\ elf.i < Len(elf.shdrs)
    /\ elf' = ReadRelaSection(elf, elf.i)
    /\ UNCHANGED <<abbrev, reloc, index, init, finder, hist>>

\* return 0
SectionsReturn ==
    /\ elf.pc = "pass2"
    /\ elf.i = Len(elf.shdrs)
    /\ elf' = [elf EXCEPT !.pc = "done"]
    /\ UNCHANGED <<abbrev, reloc, index, init, finder, hist>>

NextElf == SectionStep \/ SectionsFound \/ RelaStep \/ SectionsReturn

SpecElf == InitElf /\ [][NextElf]_vars

(***************************************************************************)
(* Properties of the section reader.                                       *)
(***************************************************************************)
SymtabHeaders == {i \in 0..Len(elf.shdrs) - 1 : elf.shdrs[i + 1].sh_type = SHT_SYMTAB}

FirstOf(S) == CHOOSE i \in S : \A k \in S : i <= k
LastOf(S) == CHOOSE i \in S : \A k \in S : i >= k

\* The headers that name a debug section, by their type and name.
DebugHeaders(name) ==
    {i \in 0..Len(elf.shdrs) - 1 :
        /\ elf.shdrs[i + 1].sh_type = SHT_PROGBITS
        /\ elf.shdrs[i + 1].sh_name # 0
        /\ CStr(elf.shstrtab, elf.shdrs[i + 1].sh_name) = name}

SectionAbsent ==
    \/ SymtabHeaders = {}
    \/ \E name \in {NameDebugAbbrev, NameDebugInfo, NameDebugStr} :
          DebugHeaders(name) = {}

FirstLoopOver == elf.pc \in {"pass2", "done"} \/ (elf.pc = "error" /\ elf.i = Len(elf.shdrs))

\* The SHT_RELA headers recorded for a debug section.
RecordedRela ==
    {elf.rela_sections[j].shdr_index : j \in
        {j \in 0..NUM_DEBUG_SECTIONS - 1 : elf.rela_sections[j].buffer # NULL}}

\* C10 as stated: once the first loop is over, the symbol table recorded is
\* the first SHT_SYMTAB header, and the file is refused with
\* DwarfFormatError when no SHT_SYMTAB or one of the three debug sections
\* is absent.
C10_FirstSymtab ==
    /\ (elf.pc \in {"pass2", "done"})
            => elf.symtab.shdr_index = FirstOf(SymtabHeaders)
    /\ (FirstLoopOver /\ SectionAbsent)
            => elf.pc = "error" /\ elf.err = "DwarfFormatError"

\* C10 amended: the symbol table recorded, and the one the sh_link of a
\* recorded SHT_RELA header must name, is the last SHT_SYMTAB header; when
\* the first loop ends and no SHT_SYMTAB or one of the three debug sections
\* is absent, the file is refused with DwarfFormatError.
C10_LastSymtab ==
    /\ (elf.pc \in {"pass2", "done"})
            => /\ elf.symtab = SectionOf(LastOf(SymtabHeaders),
                                         elf.shdrs[LastOf(SymtabHeaders) + 1])
               /\ \A r \in RecordedRela :
                     elf.shdrs[r + 1].sh_link = LastOf(SymtabHeaders)
    /\ (FirstLoopOver /\ SectionAbsent)
            => elf.pc = "error" /\ elf.err = "DwarfFormatError"

\* A file with two SHT_SYMTAB headers and the three debug sections, read
\* with success, with a SHT_RELA header recorded.
C10_Witness ==
    /\ elf.pc = "done"
    /\ Cardinality(SymtabHeaders) = 2
    /\ RecordedRela # {}

(***************************************************************************)
(* The byte readers.  A read gives                                         *)
(*   err    "" or the exception raised, or "oob" when the bytes read lie   *)
(*          beyond the section although they lie before end,               *)
(*   ptr    the pointer after the read,                                    *)
(*   value  the value read.                                                *)
(***************************************************************************)
ReadFail(e) == [err |-> e, ptr |-> 0, value |-> 0]

in_bounds(ptr, end, size) == ptr <= end /\ end - ptr >= size

\* Every value of 2^24 or more is read as Huge: the sizes and offsets the
\* values are compared with are all below it.
Huge == 16777216

RECURSIVE LittleEndian(_)
LittleEndian(bytes) ==
    IF bytes = <<>> THEN 0
    ELSE LET rest == LittleEndian(Tail(bytes))
         IN  IF rest >= Huge \div 256 THEN Huge ELSE Head(bytes) + 256 * rest

\* read_u8, read_u16, read_u32, read_u64 and their _into_ variants (n bytes)
ReadUInt(sec, ptr, end, n) ==
    IF ~in_bounds(ptr, end, n) THEN ReadFail("EOFError")
    ELSE IF ptr + n > Len(sec) THEN ReadFail("oob")
    ELSE [err |-> "", ptr |-> ptr + n,
          value |-> LittleEndian(SubSeq(sec, ptr + 1, ptr + n))]

RECURSIVE Uleb128From(_, _, _, _, _)
Uleb128From(sec, ptr, end, shift, value) ==
    IF ptr >= end THEN ReadFail("EOFError")
    ELSE IF ptr >= Len(sec) THEN ReadFail("oob")
    ELSE LET byte == sec[ptr + 1]
             v == IF byte % 128 = 0 THEN value
                  ELSE IF shift > 21 \/ value + (byte % 128) * Pow2(shift) > Huge
                  THEN Huge
                  ELSE value + (byte % 128) * Pow2(shift)
         IN  IF shift = 63 /\ byte > 1 THEN ReadFail("OverflowError")
             ELSE IF byte < 128 THEN [err |-> "", ptr |-> ptr + 1, value |-> v]
             ELSE Uleb128From(sec, ptr + 1, end, shift + 7, v)

read_uleb128(sec, ptr, end) == Uleb128From(sec, ptr, end, 0, 0)

\* The offset of the first NUL in [ptr, end), or NULL: memchr(ptr, 0, end - ptr)
RECURSIVE MemchrNul(_, _, _)
MemchrNul(sec, ptr, end) ==
    IF ptr >= end THEN NULL
    ELSE IF ptr >= Len(sec) THEN Len(sec) + 1
    ELSE IF sec[ptr + 1] = 0 THEN ptr
    ELSE MemchrNul(sec, ptr + 1, end)

\* case ATTRIB_STRING: the pointer after the string
ReadString(sec, ptr, end) ==
    IF ptr >= end THEN ReadFail("EOFError")
    ELSE LET nul == MemchrNul(sec, ptr, end)
         IN  IF nul = NULL THEN ReadFail("EOFError")
             ELSE IF nul > Len(sec) THEN ReadFail("oob")
             ELSE [err |-> "", ptr |-> nul + 1, value |-> 0]

\* case ATTRIB_LEB128: the pointer after the number
RECURSIVE SkipLeb128(_, _, _)
SkipLeb128(sec, ptr, end) ==
    IF ptr >= end THEN ReadFail("EOFError")
    ELSE IF ptr >= Len(sec) THEN ReadFail("oob")
    ELSE IF sec[ptr + 1] < 128 THEN [err |-> "", ptr |-> ptr + 1, value |-> 0]
    ELSE SkipLeb128(sec, ptr + 1, end)

(***************************************************************************)
(* The hash table.  A name is a pointer into a section of a file:          *)
(* [file, sec, off] with sec "info" or "str".  The hash is a uint32_t,     *)
(* kept as its two 16-bit halves <<high, low>>.                            *)
(***************************************************************************)
DIE_HASH_SHIFT == 2
DIE_HASH_SIZE == Pow2(DIE_HASH_SHIFT)

\* The null pointer of a name, and the entry of an empty slot.
NullName == [file |-> 0, sec |-> "NULL", off |-> 0]
NoEntry == [name |-> NullName, tag |-> 0, cu |-> <<0, 0>>, ptr |-> NULL]

\* hash = ((hash << 5) + hash) + *p++
RECURSIVE HashFrom(_, _)
HashFrom(hash, str) ==
    IF str = <<>> THEN hash
    ELSE LET low == hash[2] * 33 + Head(str)
             high == hash[1] * 33 + low \div 65536
         IN  HashFrom(<<high % 65536, low % 65536>>, Tail(str))

\* name_hash(name) & DIE_HASH_MASK; 5381 is <<0, 5381>>
HashSlot(str) == HashFrom(<<0, 5381>>, str)[2] % DIE_HASH_SIZE

\* The bytes that a read through a name pointer meets: those of its section
\* and, for .debug_str, the bytes of the mapping that follow the section.
NameBytes(files, name) ==
    IF name.sec = "str"
    THEN files[name.file].debug_str \o files[name.file].after_str
    ELSE files[name.file].debug_info

\* while (*p): the loop of name_hash meets a NUL in the bytes it can read.
\* When it does not, the read leaves the mapping.
NameMapped(files, name) ==
    \E k \in name.off + 1..Len(NameBytes(files, name)) :
        NameBytes(files, name)[k] = 0

\* The C string a name pointer points to.
NameString(files, name) == CStr(NameBytes(files, name), name.off)

\* The probe loop of add_die_hash_entry and of DwarfIndex_find: from slot i
\* (from 0), after n slots have been passed.  It gives the slot where the
\* loop ends and what it ends on: "empty", "equal" or "full".
RECURSIVE Probe(_, _, _, _, _, _)
Probe(die_hash, files, str, tag, i, n) ==
    LET entry == die_hash[i + 1] IN
    IF entry.name = NullName THEN [slot |-> i, on |-> "empty"]
    ELSE IF entry.tag = tag /\ NameString(files, entry.name) = str
    THEN [slot |-> i, on |-> "equal"]
    ELSE IF n + 1 = DIE_HASH_SIZE THEN [slot |-> i, on |-> "full"]
    ELSE Probe(die_hash, files, str, tag, (i + 1) % DIE_HASH_SIZE, n + 1)

\* A faulty variant of add_die_hash_entry: an equal entry is replaced.
add_die_hash_entry_replacing(die_hash, files, name, tag, cu, ptr) ==
    LET str == NameString(files, name)
        p == Probe(die_hash, files, str, tag, HashSlot(str), 0)
    IN  IF p.on = "full" THEN [err |-> "MemoryError", die_hash |-> die_hash]
        ELSE [err |-> "",
              die_hash |-> [die_hash EXCEPT ![p.slot + 1] =
                               [name |-> name, tag |-> tag, cu |-> cu,
                                ptr |-> ptr]]]

add_die_hash_entry(die_hash, files, name, tag, cu, ptr) ==
    LET str == NameString(files, name)
        p == Probe(die_hash, files, str, tag, HashSlot(str), 0)
    IN  IF p.on = "empty"
        THEN [err |-> "",
              die_hash |-> [die_hash EXCEPT ![p.slot + 1] =
                               [name |-> name, tag |-> tag, cu |-> cu,
                                ptr |-> ptr]]]
        ELSE IF p.on = "equal" THEN [err |-> "", die_hash |-> die_hash]
        ELSE [err |-> "MemoryError", die_hash |-> die_hash]

\* A faulty variant of FindEntry: the tag of an entry is not compared.
FindEntryAnyTag(die_hash, files, str, tag) ==
    LET found == {k \in 0..DIE_HASH_SIZE - 1 :
                    /\ die_hash[k + 1].name # NullName
                    /\ NameString(files, die_hash[k + 1].name) = str}
    IN  IF found = {} THEN NULL ELSE CHOOSE k \in found : TRUE

\* The probe loop of DwarfIndex_find: the slot of the entry found, or NULL.
FindEntry(die_hash, files, str, tag) ==
    LET p == Probe(die_hash, files, str, tag, HashSlot(str), 0)
    IN  IF p.on = "equal" THEN p.slot ELSE NULL

(***************************************************************************)
(* read_compilation_unit_header and one iteration of the loop of read_cus. *)
(***************************************************************************)
\* The 32-bit unit length 0xffffffff announces the 64-bit format.
Is64Bit(sec, ptr) == SubSeq(sec, ptr + 1, ptr + 4) = <<255, 255, 255, 255>>

\* The header fields read from ptr, or the exception raised.
read_compilation_unit_header(sec, ptr, end) ==
    LET first == ReadUInt(sec, ptr, end, 4)
        is_64_bit == first.err = "" /\ Is64Bit(sec, ptr)
        length == IF is_64_bit THEN ReadUInt(sec, first.ptr, end, 8) ELSE first
        version == ReadUInt(sec, length.ptr, end, 2)
        offset == ReadUInt(sec, version.ptr, end, IF is_64_bit THEN 8 ELSE 4)
        size == ReadUInt(sec, offset.ptr, end, 1)
    IN  IF first.err # "" THEN [err |-> first.err]
        ELSE IF length.err # "" THEN [err |-> length.err]
        ELSE IF version.err # "" THEN [err |-> version.err]
        ELSE IF version.value \notin {2, 3, 4} THEN [err |-> "DwarfFormatError"]
        ELSE IF offset.err # "" THEN [err |-> offset.err]
        ELSE IF size.err # "" THEN [err |-> size.err]
        ELSE [err |-> "", ptr |-> ptr, is_64_bit |-> is_64_bit,
              unit_length |-> length.value, version |-> version.value,
              debug_abbrev_offset |-> offset.value,
              address_size |-> size.value, abbrev_decls |-> <<>>]

\* read_abbrev_table: the declarations of the table from the one at
\* debug_abbrev_offset are compiled in turn, up to the first error.  The
\* table is given decoded, so an offset counts declarations.
RECURSIVE read_abbrev_table(_, _, _)
read_abbrev_table(decls, cu, k) ==
    IF k > Len(decls) THEN [err |-> "", cu |-> cu]
    ELSE LET st == ReadAbbrevDecl(decls[k], cu.address_size, cu.is_64_bit)
         IN  IF st.err # "" THEN [err |-> st.err, cu |-> cu]
             ELSE read_abbrev_table(decls,
                      [cu EXCEPT !.abbrev_decls = Append(@, st.cmds)], k + 1)

\* The first byte after the unit: &cu->ptr[(cu->is_64_bit ? 12 : 4) + cu->unit_length]
CuEnd(cu) == cu.ptr + (IF cu.is_64_bit THEN 12 ELSE 4) + cu.unit_length

(***************************************************************************)
(* index_cu: the command loop over one DIE.  Its state is                  *)
(*   ptr      the read pointer,                                            *)
(*   sibling  NULL or the pointer read for DW_AT_sibling,                  *)
(*   name     NullName or the name pointer [file, sec, off],               *)
(*   cmdp     the index of the next command,                               *)
(*   err      "" or the exception raised ("oob" as for the readers).       *)
(***************************************************************************)
\* The number of bytes of the length or reference that a command reads.
CmdReadSize(cmd, is_64_bit) ==
    CASE cmd \in {ATTRIB_BLOCK1, ATTRIB_SIBLING_REF1} -> 1
      [] cmd \in {ATTRIB_BLOCK2, ATTRIB_SIBLING_REF2} -> 2
      [] cmd \in {ATTRIB_BLOCK4, ATTRIB_SIBLING_REF4} -> 4
      [] cmd = ATTRIB_SIBLING_REF8 -> 8
      [] cmd = ATTRIB_NAME_STRP -> IF is_64_bit THEN 8 ELSE 4

\* A faulty variant of SkipBytes: the skip is not tested against the end.
SkipBytesUnchecked(st, end, n) == [st EXCEPT !.ptr = @ + n]

\* skip: the test and the addition of a skip of n bytes
SkipBytes(st, end, n) ==
    IF ~in_bounds(st.ptr, end, n) THEN [st EXCEPT !.err = "EOFError"]
    ELSE [st EXCEPT !.ptr = @ + n]

\* What a command reads at the pointer: a length, a reference, or nothing
\* for a skip of cmd bytes.
CmdRead(ptr, cmd, is_64_bit, sec, end) ==
    IF cmd \in {ATTRIB_EXPRLOC, ATTRIB_SIBLING_REF_UDATA}
    THEN read_uleb128(sec, ptr, end)
    ELSE IF cmd = ATTRIB_LEB128 THEN SkipLeb128(sec, ptr, end)
    ELSE IF cmd \in {ATTRIB_STRING, ATTRIB_NAME_STRING}
    THEN ReadString(sec, ptr, end)
    ELSE IF cmd < ATTRIB_MIN_CMD THEN [err |-> "", ptr |-> ptr, value |-> cmd]
    ELSE ReadUInt(sec, ptr, end, CmdReadSize(cmd, is_64_bit))

\* What a command does with what it read.
CmdApply(st, cmd, f, cu, end, debug_str_size, rd) ==
    IF rd.err # "" THEN [st EXCEPT !.err = rd.err]
    ELSE IF cmd \in {ATTRIB_BLOCK1, ATTRIB_BLOCK2, ATTRIB_BLOCK4,
                     ATTRIB_EXPRLOC} \/ cmd < ATTRIB_MIN_CMD
    THEN SkipBytes([st EXCEPT !.ptr = rd.ptr], end, rd.value)
    ELSE IF cmd = ATTRIB_NAME_STRING
    THEN [st EXCEPT !.ptr = rd.ptr,
                    !.name = [file |-> f, sec |-> "info", off |-> st.ptr]]
    ELSE IF cmd \in {ATTRIB_LEB128, ATTRIB_STRING} THEN [st EXCEPT !.ptr = rd.ptr]
    ELSE IF cmd = ATTRIB_NAME_STRP
    THEN IF ~in_bounds(0, debug_str_size, rd.value)
         THEN [st EXCEPT !.err = "EOFError"]
         ELSE [st EXCEPT !.ptr = rd.ptr,
                         !.name = [file |-> f, sec |-> "str", off |-> rd.value]]
    ELSE \* sibling_ref
         IF ~in_bounds(cu.ptr, end, rd.value)
         THEN [st EXCEPT !.err = "EOFError"]
         ELSE [st EXCEPT !.ptr = rd.ptr, !.sibling = cu.ptr + rd.value]

\* One command of the switch.
RunCmd(st, cmd, f, cu, sec, end, debug_str_size) ==
    CmdApply(st, cmd, f, cu, end, debug_str_size,
             CmdRead(st.ptr, cmd, cu.is_64_bit, sec, end))

\* while ((cmd = *cmdp++)): cmdp is left after the zero byte
RECURSIVE RunCmds(_, _, _, _, _, _, _)
RunCmds(st, cmds, f, cu, sec, end, debug_str_size) ==
    IF st.err # "" THEN st
    ELSE IF st.cmdp > Len(cmds) THEN [st EXCEPT !.err = "oob"]
    ELSE IF cmds[st.cmdp] = 0 THEN [st EXCEPT !.cmdp = @ + 1]
    ELSE RunCmds(RunCmd([st EXCEPT !.cmdp = @ + 1], cmds[st.cmdp], f, cu, sec,
                        end, debug_str_size),
                 cmds, f, cu, sec, end, debug_str_size)

\* A faulty variant of ShouldIndex: every depth but 0 is taken.
ShouldIndexBelowRoot(depth, name, tag) ==
    depth >= 1 /\ name # NullName /\ tag # 0

\* depth == 1 && name && tag
ShouldIndex(depth, name, tag) == depth = 1 /\ name # NullName /\ tag # 0

\* The width, scaled, of the unsigned int that counts the depth.
UIntBits == 8

\* A faulty variant of Descend: the sibling pointer is not followed.
DescendIgnoringSibling(ptr, depth, sibling, children) ==
    IF children # 0
    THEN [ptr |-> ptr, depth |-> (depth + 1) % Pow2(UIntBits), break |-> FALSE]
    ELSE [ptr |-> ptr, depth |-> depth, break |-> depth = 0]

\* The end of an iteration of the DIE loop: where the next one reads and at
\* what depth, or the end of the loop.
Descend(ptr, depth, sibling, children) ==
    IF children # 0
    THEN IF sibling # NULL
         THEN [ptr |-> sibling, depth |-> depth, break |-> FALSE]
         ELSE [ptr |-> ptr, depth |-> (depth + 1) % Pow2(UIntBits),
               break |-> FALSE]
    ELSE [ptr |-> ptr, depth |-> depth, break |-> depth = 0]

NoDie == [die_ptr |-> NULL, code |-> 0, sibling |-> NULL, name |-> NullName,
          tag |-> 0, children |-> 0, ptr |-> NULL, inserted |-> FALSE]

\* The end of an iteration of the DIE loop, for a DIE at ptr whose command
\* loop ended in st: the tag byte, the insertion, the children byte.
\* The error "oob_str" stands for a read of name_hash that leaves the
\* mapping.
IndexDieEnd(die_hash, files, f, j, ptr, depth, code, st, tag, children) ==
    LET indexed == ShouldIndex(depth, st.name, tag)
        added == IF indexed
                 THEN add_die_hash_entry(die_hash, files, st.name, tag,
                                         <<f, j>>, ptr)
                 ELSE [err |-> "", die_hash |-> die_hash]
        next == Descend(st.ptr, depth, st.sibling, children)
    IN  IF indexed /\ ~NameMapped(files, st.name) THEN [err |-> "oob_str"]
        ELSE IF added.err # "" THEN [err |-> added.err]
        ELSE [err |-> "",
              die |-> [die_ptr |-> ptr, code |-> code, sibling |-> st.sibling,
                       name |-> st.name, tag |-> tag, children |-> children,
                       ptr |-> st.ptr, inserted |-> indexed],
              ptr |-> next.ptr, depth |-> next.depth, break |-> next.break,
              die_hash |-> added.die_hash]

\* The iteration after the command loop, which ended in st.
IndexDieCmds(die_hash, files, f, j, ptr, depth, code, cmds, st) ==
    IF st.err # "" THEN [err |-> st.err]
    ELSE IF st.cmdp + 1 > Len(cmds) THEN [err |-> "oob"]
    ELSE IndexDieEnd(die_hash, files, f, j, ptr, depth, code, st,
                     cmds[st.cmdp], cmds[st.cmdp + 1])

\* The iteration after the abbreviation code was read.
IndexDieCode(die_hash, files, f, j, ptr, depth, file, cu, code) ==
    IF code.err # "" THEN [err |-> code.err]
    ELSE IF code.value = 0
    THEN [err |-> "", die |-> [NoDie EXCEPT !.die_ptr = ptr, !.ptr = code.ptr],
          ptr |-> code.ptr, depth |-> (depth - 1) % Pow2(UIntBits),
          break |-> (depth - 1) % Pow2(UIntBits) = 0,
          die_hash |-> die_hash]
    ELSE IF code.value > Len(cu.abbrev_decls)
    THEN [err |-> "DwarfFormatError"]
    ELSE IndexDieCmds(die_hash, files, f, j, ptr, depth, code.value,
                      cu.abbrev_decls[code.value],
                      RunCmds([ptr |-> code.ptr, sibling |-> NULL,
                               name |-> NullName, cmdp |-> 1, err |-> ""],
                              cu.abbrev_decls[code.value], f, cu,
                              file.debug_info, CuEnd(cu), Len(file.debug_str)))

\* One iteration of the DIE loop of index_cu, for CU number j of file number
\* f, from pointer ptr at the given depth.  It gives the exception raised or
\*   die      the locals of the iteration, after it,
\*   ptr, depth, break   as Descend gives them,
\*   die_hash the table after the iteration.
IndexDie(die_hash, files, f, j, ptr, depth) ==
    IndexDieCode(die_hash, files, f, j, ptr, depth, files[f], files[f].cus[j],
                 read_uleb128(files[f].debug_info, ptr, CuEnd(files[f].cus[j])))

(***************************************************************************)
(* The files given to DwarfIndex_init, after read_sections and             *)
(* apply_relocations: .debug_info is encoded from a small tree of DIEs,    *)
(* .debug_abbrev is the same table in every file, .debug_str is "a\0b\0".  *)
(* after_str holds the bytes of the mapping that follow .debug_str, which  *)
(* a read through a pointer to the end of the section meets.               *)
(***************************************************************************)
MaxDies == 2
NumThreads == 2

DebugStr == <<97, 0, 98, 0>>

\* The offset in .debug_str of the one-letter name n.
StrOffset(n) == IF n = 97 THEN 0 ELSE 2

AbbrevTable ==
    << [tag |-> DW_TAG_compile_unit, children |-> 1,
        attrs |-> << <<DW_AT_name, DW_FORM_string>> >>],
       [tag |-> DW_TAG_variable, children |-> 0,
        attrs |-> << <<DW_AT_name, DW_FORM_string>> >>],
       [tag |-> DW_TAG_typedef, children |-> 0,
        attrs |-> << <<DW_AT_name, DW_FORM_strp>> >>],
       [tag |-> DW_TAG_structure_type, children |-> 1,
        attrs |-> << <<DW_AT_sibling, DW_FORM_ref1>>,
                     <<DW_AT_name, DW_FORM_string>> >>],
       [tag |-> DW_TAG_structure_type, children |-> 1,
        attrs |-> << <<DW_AT_name, DW_FORM_string>>,
                     <<DW_AT_byte_size, DW_FORM_data1>> >>],
       [tag |-> DW_TAG_structure_type, children |-> 0,
        attrs |-> << <<DW_AT_name, DW_FORM_string>>,
                     <<DW_AT_declaration, DW_FORM_flag_present>> >>],
       [tag |-> DW_TAG_variable, children |-> 0,
        attrs |-> << <<DW_AT_sibling, DW_FORM_ref1>>,
                     <<DW_AT_name, DW_FORM_string>> >>] >>

\* A DIE of the tree: its abbreviation code, its one-letter name, its
\* children.
Die(code, n, kids) == [code |-> code, name |-> n, kids |-> kids]

\* The size of the header of a 32-bit unit, and the DIE of the unit: code 1,
\* the name "a".
CuHeaderSize == 11
CuDie == <<1, 97, 0>>

\* The bytes of a DIE that starts at offset at of its unit, and of a list
\* of DIEs.  A DIE with children is followed by them and by a null entry;
\* its DW_AT_sibling is the offset after that null entry.  The DW_AT_sibling
\* of a DIE without children is the offset of the first DIE of the unit.
RECURSIVE EncodeDie(_, _), EncodeDies(_, _)
EncodeDie(d, at) ==
    CASE d.code = 2 -> <<2, d.name, 0>>
      [] d.code = 3 -> <<3, StrOffset(d.name), 0, 0, 0>>
      [] d.code = 4 -> LET kids == EncodeDies(d.kids, at + 4)
                       IN  <<4, at + 4 + Len(kids) + 1, d.name, 0>> \o kids \o <<0>>
      [] d.code = 5 -> <<5, d.name, 0, 1>> \o EncodeDies(d.kids, at + 4) \o <<0>>
      [] d.code = 6 -> <<6, d.name, 0>>
      [] d.code = 7 -> <<7, CuHeaderSize, d.name, 0>>

EncodeDies(ds, at) ==
    IF ds = <<>> THEN <<>>
    ELSE LET first == EncodeDie(Head(ds), at)
         IN  first \o EncodeDies(Tail(ds), at + Len(first))

\* A 32-bit unit of version 4 with 8-byte addresses: the header, the unit
\* DIE, the DIEs given and the null entry that ends them.
EncodeCu(ds) ==
    LET dies == CuDie \o EncodeDies(ds, CuHeaderSize + Len(CuDie)) \o <<0>>
    IN  <<Len(dies) + 7, 0, 0, 0, 4, 0, 0, 0, 0, 0, 8>> \o dies

\* The DIEs of the tree with the offset in the unit and the depth of each.
RECURSIVE TreeDie(_, _, _), TreeDies(_, _, _)
TreeDie(d, at, depth) ==
    <<[off |-> at, depth |-> depth, code |-> d.code]>>
    \o (IF d.code \in {4, 5} THEN TreeDies(d.kids, at + 4, depth + 1) ELSE <<>>)

TreeDies(ds, at, depth) ==
    IF ds = <<>> THEN <<>>
    ELSE TreeDie(Head(ds), at, depth)
         \o TreeDies(Tail(ds), at + Len(EncodeDie(Head(ds), at)), depth)

CuTree(ds) ==
    <<[off |-> CuHeaderSize, depth |-> 0, code |-> 1]>>
    \o TreeDies(ds, CuHeaderSize + Len(CuDie), 1)

Leaves == {Die(2, 97, <<>>), Die(2, 98, <<>>), Die(3, 97, <<>>),
           Die(6, 97, <<>>), Die(7, 98, <<>>)}

KidLists == {<<>>, <<Die(5, 98, <<Die(2, 97, <<>>)>>)>>}

TopDies == Leaves \cup {Die(code, 97, kids) : code \in {4, 5}, kids \in KidLists}

\* The units of the first place, and those of the second.
FirstCus == SeqsUpTo(TopDies, MaxDies)

SecondCus ==
    {<<Die(5, 97, <<Die(2, 98, <<>>)>>)>>,
     <<Die(3, 98, <<>>), Die(2, 98, <<>>)>>,
     <<Die(2, 97, <<>>)>>}

\* A file whose .debug_info holds the units given, one after the other.
RECURSIVE ConcatCus(_)
ConcatCus(cus) ==
    IF cus = <<>> THEN <<>> ELSE EncodeCu(Head(cus)) \o ConcatCus(Tail(cus))

File(cus) ==
    [debug_info |-> ConcatCus(cus), debug_str |-> DebugStr,
     after_str |-> <<>>, debug_abbrev |-> AbbrevTable, cus |-> <<>>, obj |-> NULL, cu_objs |-> {},
     trees |-> [k \in 1..Len(cus) |-> CuTree(cus[k])]]

\* Two units, in two files or one after the other in one file.
IndexInputs ==
    UNION {{<<File(<<a>>), File(<<b>>)>>, <<File(<<a, b>>)>>} :
             a \in FirstCus, b \in SecondCus}

Threads == 1..NumThreads

\* The arguments of find: the name "a" with each tag, and a name ("c") that
\* no file holds.
FindArgs ==
    {<<(<<97>>), DW_TAG_variable>>, <<(<<97>>), DW_TAG_typedef>>,
     <<(<<97>>), DW_TAG_structure_type>>, <<(<<99>>), DW_TAG_variable>>}

\* The result of a call that found nothing, and of no call yet.
NotFound == [err |-> "ValueError"]
NoResult == [err |-> "none"]

NoFind == [pc |-> "idle", name |-> <<>>, tag |-> 0, entry |-> NULL,
           cached |-> FALSE, need_obj |-> FALSE, result |-> NoResult]

Init ==
    /\ \E files \in IndexInputs :
          index = [files |-> files,
                   die_hash |-> [k \in 1..DIE_HASH_SIZE |-> NoEntry],
                   address_size |-> 0]
    /\ init = [pc |-> "file", i |-> 1, j |-> 1, ptr |-> 0, depth |-> 0,
               err |-> ""]
    /\ finder = [t \in Threads |-> NoFind]
    /\ hist = <<>>
    /\ abbrev = Idle /\ reloc = Idle /\ elf = Idle

(***************************************************************************)
(* DwarfIndex_init, from the test of .debug_str on, and DwarfIndex_find.   *)
(***************************************************************************)
\* for (i = 0; i < self->num_files; i++): the test of .debug_str of file i
OpenFile ==
    /\ init.pc = "file"
    /\ init.i <= Len(index.files)
    /\ LET debug_str == index.files[init.i].debug_str
       IN  init' = IF debug_str = <<>> \/ debug_str[Len(debug_str)] # 0
                   THEN [init EXCEPT !.pc = "error", !.err = "DwarfFormatError"]
                   ELSE [init EXCEPT !.pc = "read_cus", !.ptr = 0]
    /\ UNCHANGED <<abbrev, reloc, elf, index, finder, hist>>

\* One iteration of the loop of read_cus.
ReadCu ==
    /\ init.pc = "read_cus"
    /\ init.ptr < Len(index.files[init.i].debug_info)
    /\ LET file == index.files[init.i]
           cu == read_compilation_unit_header(file.debug_info, init.ptr,
                                              Len(file.debug_info))
           table == read_abbrev_table(file.debug_abbrev, cu,
                                      cu.debug_abbrev_offset + 1)
       IN  IF cu.err # ""
           THEN /\ init' = [init EXCEPT !.pc = "error", !.err = cu.err]
                /\ index' = index
           ELSE /\ index' = [index EXCEPT
                                !.files[init.i].cus =
                                    Append(@, [k \in DOMAIN table.cu \ {"err"} |->
                                                  table.cu[k]]),
                                !.address_size = cu.address_size]
                /\ init' = IF table.err # ""
                           THEN [init EXCEPT !.pc = "error", !.err = table.err]
                           ELSE [init EXCEPT !.ptr = CuEnd(cu)]
    /\ UNCHANGED <<abbrev, reloc, elf, finder, hist>>

\* read_cus returns 0: for (j = 0; ...) begins.
ReadCusReturn ==
    /\ init.pc = "read_cus"
    /\ init.ptr >= Len(index.files[init.i].debug_info)
    /\ init' = [init EXCEPT !.pc = "index_cu", !.j = 1]
    /\ UNCHANGED <<abbrev, reloc, elf, index, finder, hist>>

\* for (j = 0; j < self->files[i].num_cus; j++): index_cu is entered
IndexCu ==
    /\ init.pc = "index_cu"
    /\ init.j <= Len(index.files[init.i].cus)
    /\ LET cu == index.files[init.i].cus[init.j]
       IN  init' = [init EXCEPT !.pc = "die", !.depth = 0,
                       !.ptr = cu.ptr + (IF cu.is_64_bit THEN 23 ELSE 11)]
    /\ UNCHANGED <<abbrev, reloc, elf, index, finder, hist>>

\* The units of file i are indexed: the next file.
NextFile ==
    /\ init.pc = "index_cu"
    /\ init.j > Len(index.files[init.i].cus)
    /\ init' = [init EXCEPT !.pc = "file", !.i = @ + 1]
    /\ UNCHANGED <<abbrev, reloc, elf, index, finder, hist>>

\* One iteration of the loop of index_cu.
IndexDieStep ==
    /\ init.pc = "die"
    /\ LET r == IndexDie(index.die_hash, index.files, init.i, init.j,
                         init.ptr, init.depth)
       IN  IF r.err # ""
           THEN /\ init' = [init EXCEPT !.err = r.err,
                               !.pc = IF r.err \in {"oob", "oob_str"} THEN "oob"
                                     ELSE "error"]
                /\ UNCHANGED <<index, hist>>
           ELSE /\ index' = [index EXCEPT !.die_hash = r.die_hash]
                /\ hist' = Append(hist, [file |-> init.i, cu |-> init.j,
                                         depth |-> init.depth, die |-> r.die])
                /\ init' = IF r.break
                           THEN [init EXCEPT !.pc = "index_cu", !.j = @ + 1,
                                             !.ptr = r.ptr, !.depth = r.depth]
                           ELSE [init EXCEPT !.ptr = r.ptr, !.depth = r.depth]
    /\ UNCHANGED <<abbrev, reloc, elf, finder>>

\* return 0
InitReturn ==
    /\ init.pc = "file"
    /\ init.i > Len(index.files)
    /\ init' = [init EXCEPT !.pc = "done"]
    /\ UNCHANGED <<abbrev, reloc, elf, index, finder, hist>>

\* The offsets that DwarfIndex_find gives for the entry of a slot.
FindResult(files, entry) ==
    [err |-> "", file |-> entry.cu[1],
     cu_offset |-> files[entry.cu[1]].cus[entry.cu[2]].ptr,
     die_offset |-> entry.ptr - files[entry.cu[1]].cus[entry.cu[2]].ptr]

\* DwarfIndex_find up to its first call into Python: the probe loop, the
\* look into cu_objs and the test of file->obj.
FindLookup(t) ==
    /\ init.pc = "done"
    /\ finder[t].pc \in {"idle", "returned"}
    /\ \E args \in FindArgs :
          LET name == args[1]
              tag == args[2]
              slot == FindEntry(index.die_hash, index.files, name, tag)
              entry == index.die_hash[slot + 1]
              file == index.files[entry.cu[1]]
              cached == FindResult(index.files, entry).cu_offset \in file.cu_objs
          IN  finder' = [finder EXCEPT ![t] =
                  IF slot = NULL
                  THEN [NoFind EXCEPT !.pc = "returned", !.name = name,
                                      !.tag = tag, !.result = NotFound]
                  ELSE [NoFind EXCEPT !.pc = "lookup", !.name = name,
                                      !.tag = tag, !.entry = slot,
                                      !.cached = cached,
                                      !.need_obj = ~cached /\ file.obj = NULL]]
    /\ UNCHANGED <<abbrev, reloc, elf, index, init, hist>>

\* A faulty variant of FindStore: the entry found is also moved to the slot
\* its name hashes to, the entry of that slot taking its place.
FindStoreMoveToFront(idx, slot, t, cached, need_obj) ==
    LET entry == idx.die_hash[slot + 1]
        home == HashSlot(NameString(idx.files, entry.name))
        offset == FindResult(idx.files, entry).cu_offset
    IN  [idx EXCEPT
            !.die_hash[slot + 1] = idx.die_hash[home + 1],
            !.die_hash[home + 1] = entry,
            !.files[entry.cu[1]].cu_objs = @ \cup {offset}]

\* What DwarfIndex_find stores after its calls into Python: the DwarfFile
\* object it created (named after the calling thread) and the CU object.
FindStore(idx, slot, t, cached, need_obj) ==
    LET entry == idx.die_hash[slot + 1]
        offset == FindResult(idx.files, entry).cu_offset
    IN  IF cached THEN idx
        ELSE [idx EXCEPT
                !.files[entry.cu[1]].obj = IF need_obj THEN t ELSE @,
                !.files[entry.cu[1]].cu_objs = @ \cup {offset}]

\* DwarfIndex_find from its first call into Python to its return.
FindReturn(t) ==
    /\ finder[t].pc = "lookup"
    /\ index' = FindStore(index, finder[t].entry, t, finder[t].cached,
                          finder[t].need_obj)
    /\ finder' = [finder EXCEPT ![t].pc = "returned",
                     ![t].result = FindResult(index.files,
                                              index.die_hash[finder[t].entry + 1])]
    /\ UNCHANGED <<abbrev, reloc, elf, init, hist>>

Next ==
    \/ OpenFile \/ ReadCu \/ ReadCusReturn \/ IndexCu \/ NextFile
    \/ IndexDieStep \/ InitReturn
    \/ \E t \in Threads : FindLookup(t)
    \/ \E t \in Threads : FindReturn(t)

Spec == Init /\ [][Next]_vars

(***************************************************************************)
(* Properties of the index.  hist holds one record for each iteration of   *)
(* the DIE loop that ended without an exception.                           *)
(***************************************************************************)
\* The call of find by thread t has returned.
Returned(t) == finder[t].pc = "returned"

\* The iterations that called add_die_hash_entry with the name and tag that
\* thread t asked for.
InsertedFor(t) ==
    {k \in 1..Len(hist) :
        /\ hist[k].die.inserted
        /\ hist[k].die.tag = finder[t].tag
        /\ NameString(index.files, hist[k].die.name) = finder[t].name}

\* The location of the DIE of iteration k: file, CU offset, DIE offset.
VisitLocation(k) ==
    LET cu == index.files[hist[k].file].cus[hist[k].cu]
    IN  [err |-> "", file |-> hist[k].file, cu_offset |-> cu.ptr,
         die_offset |-> hist[k].die.die_ptr - cu.ptr]

\* C1: after a successful construction, find(name, tag) for a pair that was
\* inserted returns the location of the first DIE inserted with that name
\* and tag; later inserts of the pair do not replace or shadow it.
C1_FindFirstInserted ==
    \A t \in Threads :
        (Returned(t) /\ InsertedFor(t) # {})
            => finder[t].result = VisitLocation(FirstOf(InsertedFor(t)))

\* find has returned the first of two DIEs inserted with the same name and
\* tag.
C1_Witness ==
    \E t \in Threads :
        /\ Returned(t)
        /\ Cardinality(InsertedFor(t)) >= 2
        /\ finder[t].result = VisitLocation(FirstOf(InsertedFor(t)))

\* The occupied slots whose tag and name string are those thread t asked for.
EqualSlots(t) ==
    {k \in 1..DIE_HASH_SIZE :
        /\ index.die_hash[k].name # NullName
        /\ index.die_hash[k].tag = finder[t].tag
        /\ NameString(index.files, index.die_hash[k].name) = finder[t].name}

\* C2: find succeeds only on an occupied slot with the tag and the name
\* string asked for, and returns the not-found error when no such entry was
\* inserted, also when the name is indexed under another tag and when no
\* slot is empty.
C2_FindOnlyEqual ==
    \A t \in Threads :
        Returned(t) =>
            /\ finder[t].result # NotFound =>
                  \E k \in EqualSlots(t) :
                      finder[t].result = FindResult(index.files, index.die_hash[k])
            /\ InsertedFor(t) = {} => finder[t].result = NotFound

\* find has returned the not-found error from a table without an empty slot
\* that holds the name under another tag.
C2_Witness ==
    \E t \in Threads :
        /\ Returned(t)
        /\ finder[t].result = NotFound
        /\ \A k \in 1..DIE_HASH_SIZE : index.die_hash[k].name # NullName
        /\ \E k \in 1..DIE_HASH_SIZE :
              /\ NameString(index.files, index.die_hash[k].name) = finder[t].name
              /\ index.die_hash[k].tag # finder[t].tag

\* The DIE of the tree of its unit that iteration k read, as a set (empty
\* when the iteration read from an offset where no DIE begins).
TreeDieOf(k) ==
    LET v == hist[k]
        tree == index.files[v.file].trees[v.cu]
        off == v.die.die_ptr - index.files[v.file].cus[v.cu].ptr
    IN  {tree[m] : m \in {m \in 1..Len(tree) : tree[m].off = off}}

\* The abbreviation has a name that is extracted and a tag that is indexed.
NamedAndTagged(decl) ==
    /\ \E a \in 1..Len(decl.attrs) :
          /\ decl.attrs[a][1] = DW_AT_name
          /\ decl.attrs[a][2] \in {DW_FORM_strp, DW_FORM_string}
    /\ FilterTag(decl.tag) # 0
    /\ ~(decl.tag # DW_TAG_variable /\ HasDeclaration(decl.attrs))

\* C3: in a well-formed CU, a DIE is inserted exactly when it is at depth 1
\* of the tree, has a name and an abbreviation whose filtered tag is not
\* zero; the unit DIE and the DIEs at depth 2 or more are not inserted.
\* Every DIE at depth 1 is read once the construction is over.
C3_InsertedIffDepthOne ==
    /\ \A k \in 1..Len(hist) :
          hist[k].die.code # 0 =>
              /\ TreeDieOf(k) # {}
              /\ \A d \in TreeDieOf(k) :
                    /\ d.code = hist[k].die.code
                    /\ hist[k].die.inserted <=>
                          (d.depth = 1 /\ NamedAndTagged(AbbrevTable[d.code]))
    /\ init.pc = "done" =>
          \A f \in 1..Len(index.files) : \A j \in 1..Len(index.files[f].trees) :
              \A m \in 1..Len(index.files[f].trees[j]) :
                  index.files[f].trees[j][m].depth = 1 =>
                      \E k \in 1..Len(hist) :
                          /\ hist[k].file = f /\ hist[k].cu = j
                          /\ index.files[f].trees[j][m] \in TreeDieOf(k)

\* The construction is over; a DIE at depth 1 was inserted, and a DIE at
\* depth 2 with a name and an indexed tag was read and not inserted.
C3_Witness ==
    /\ init.pc = "done"
    /\ \E k \in 1..Len(hist) : hist[k].depth = 1 /\ hist[k].die.inserted
    /\ \E k \in 1..Len(hist) :
          /\ hist[k].die.name # NullName /\ hist[k].die.tag # 0
          /\ ~hist[k].die.inserted
          /\ \E d \in TreeDieOf(k) : d.depth = 2

\* Iterations k and k + 1 are of the same unit, and k read a DIE.
Consecutive(k) ==
    /\ hist[k].die.code # 0
    /\ hist[k + 1].file = hist[k].file
    /\ hist[k + 1].cu = hist[k].cu

\* C5: after a DIE with children and a sibling pointer the indexer reads at
\* the sibling address at the same depth, and reads no DIE between the end
\* of that DIE and the sibling address; after a DIE with children and no
\* sibling pointer it reads on at depth + 1; after a DIE without children
\* it reads on at the same depth, whatever the sibling pointer.
C5_SiblingAndDescent ==
    \A k \in 1..Len(hist) - 1 :
        Consecutive(k) =>
            LET die == hist[k].die
                next == hist[k + 1]
            IN  IF die.children # 0 /\ die.sibling # NULL
                THEN /\ next.die.die_ptr = die.sibling
                     /\ next.depth = hist[k].depth
                     /\ \A m \in 1..Len(hist) :
                           (hist[m].file = hist[k].file /\ hist[m].cu = hist[k].cu)
                               => ~(/\ die.ptr <= hist[m].die.die_ptr
                                    /\ hist[m].die.die_ptr < die.sibling)
                ELSE /\ next.die.die_ptr = die.ptr
                     /\ next.depth = hist[k].depth
                                        + (IF die.children # 0 THEN 1 ELSE 0)

\* A DIE with children and a sibling pointer beyond them was followed by an
\* iteration, and so was a DIE without children that has a sibling pointer.
C5_Witness ==
    /\ \E k \in 1..Len(hist) - 1 :
          /\ Consecutive(k)
          /\ hist[k].die.children # 0 /\ hist[k].die.sibling # NULL
          /\ hist[k].die.sibling > hist[k].die.ptr + 1
    /\ \E k \in 1..Len(hist) - 1 :
          /\ Consecutive(k)
          /\ hist[k].die.children = 0 /\ hist[k].die.sibling # NULL

\* What a call of find with the arguments of thread t returns when it runs
\* alone.
ResultAlone(t) ==
    LET slot == FindEntry(index.die_hash, index.files, finder[t].name,
                          finder[t].tag)
    IN  IF slot = NULL THEN NotFound
        ELSE FindResult(index.files, index.die_hash[slot + 1])

SameResultAsAlone ==
    \A t \in Threads : Returned(t) => finder[t].result = ResultAlone(t)

\* C8 as stated: after the construction no step of find changes the index
\* (hash table, files, CUs, per-file caches), and every call returns what it
\* returns when it runs alone.
C8_FindChangesNothing ==
    [][init.pc = "done" => index' = index]_vars /\ []SameResultAsAlone

\* C8 amended: after the construction no step of find changes the hash
\* table, the sections or the CUs, and every call returns what it returns
\* when it runs alone; find does store the DwarfFile object and the CU
\* objects it creates in the per-file caches.
C8_FindChangesCachesOnly ==
    /\ [][init.pc = "done" =>
            /\ index'.die_hash = index.die_hash
            /\ index'.address_size = index.address_size
            /\ \A f \in 1..Len(index.files) :
                  index'.files[f] = [index.files[f] EXCEPT
                                        !.obj = index'.files[f].obj,
                                        !.cu_objs = index'.files[f].cu_objs]]_vars
    /\ []SameResultAsAlone

\* Two calls that both found file->obj unset have returned, each having
\* stored the object it created.
C8_Witness ==
    \E t, u \in Threads :
        /\ t # u
        /\ Returned(t) /\ Returned(u)
        /\ finder[t].need_obj /\ finder[u].need_obj
        /\ finder[t].result.file = finder[u].result.file
        /\ index.files[finder[t].result.file].obj # NULL

(***************************************************************************)
(* DwarfIndex_init on files whose .debug_info need not be what a compiler  *)
(* writes: one file of one or two units, whose bytes are given as they     *)
(* are.  The unit DIE <<1, "a", 0>> begins at offset 11 of a unit, and the *)
(* offsets below are those of a unit whose first entry it is.              *)
(***************************************************************************)
MaxIterations == 12

\* The table of the files above, then a variable with an address and a
\* childless unit DIE.
WideAbbrevTable ==
    AbbrevTable \o
    << [tag |-> DW_TAG_variable, children |-> 0,
        attrs |-> << <<DW_AT_name, DW_FORM_string>>,
                     <<DW_AT_low_pc, DW_FORM_addr>>,
                     <<DW_AT_byte_size, DW_FORM_udata>> >>],
       [tag |-> DW_TAG_compile_unit, children |-> 0,
        attrs |-> << <<DW_AT_name, DW_FORM_string>>,
                     <<DW_AT_byte_size, DW_FORM_data4>> >>] >>

\* A 32-bit unit of version 4 that holds the bytes dies, with the
\* address_size byte given and a unit_length that counts extra bytes more
\* than the unit has.
Unit(dies, address_size, extra) ==
    <<Len(dies) + 7 + extra, 0, 0, 0, 4, 0, 0, 0, 0, 0, address_size>> \o dies

\* A variable "b" with an address of 8 bytes, under each address_size byte.
AddressUnits ==
    {Unit(CuDie \o <<8, 98, 0, 0, 0, 0, 0, 0, 0, 0, 0, 5, 0>>, a, 0) :
        a \in {0, 8, 250}}

\* A unit DIE without children: alone, followed by more bytes, cut short.
ChildlessUnits ==
    {Unit(<<9, 97, 0, 1, 0, 0, 0>>, 8, 0),
     Unit(<<9, 97, 0, 1, 0, 0, 0, 2, 98, 0>>, 8, 0),
     Unit(<<9, 97, 0, 1, 0>>, 8, 0)}

\* Units that end in the middle of a name or without the closing null
\* entry, with a unit_length that is right or 3 too large.
LongUnits ==
    {Unit(CuDie \o tail, 8, extra) :
        tail \in {<<2, 98>>, <<2, 98, 0>>}, extra \in {0, 3}}

\* A typedef whose DW_FORM_strp offset is inside .debug_str (2), its size
\* (4) or more (5).
StrpUnits == {Unit(CuDie \o <<3, off, 0, 0, 0, 0>>, 8, 0) : off \in {2, 4, 5}}

\* A structure at offset 14 with an empty list of children, whose
\* DW_AT_sibling is the offset of the unit DIE (11), its own (14), that of
\* the entry after its children (19), the end of the unit (20) or more (21).
SiblingUnits ==
    {Unit(CuDie \o <<4, v, 97, 0, 0, 0>>, 8, 0) : v \in {11, 14, 19, 20, 21}}

\* Units whose first entry is a null entry.
NullFirstUnits ==
    {Unit(<<0>> \o CuDie \o <<2, 98, 0, 0>>, 8, 0), Unit(<<0, 0>>, 8, 0)}

OddUnits ==
    AddressUnits \cup ChildlessUnits \cup LongUnits \cup StrpUnits
    \cup SiblingUnits \cup NullFirstUnits

\* The trees of the units that a compiler could have written.
SoundUnits ==
    {<<>>, <<Die(2, 98, <<>>)>>, <<Die(4, 97, <<Die(2, 98, <<>>)>>)>>}

\* A file of the units given.  trees holds the tree a unit was encoded
\* from, and <<>> for a unit given by its bytes.
UnitFile(debug_info, after_str, trees) ==
    [debug_info |-> debug_info, debug_str |-> DebugStr,
     after_str |-> after_str, debug_abbrev |-> WideAbbrevTable,
     cus |-> <<>>, obj |-> NULL, cu_objs |-> {}, trees |-> trees]

\* The bytes that follow .debug_str in the mapping: none, or "c\0".
AfterStr == {<<>>, <<99, 0>>}

UnitFiles ==
    UNION {{UnitFile(u, after, <<(<<>>)>>)} \cup
           {UnitFile(EncodeCu(ds) \o u, after, <<CuTree(ds), <<>>>>) :
               ds \in SoundUnits} :
             u \in OddUnits, after \in AfterStr}

InitUnits ==
    /\ \E file \in UnitFiles :
          index = [files |-> <<file>>,
                   die_hash |-> [k \in 1..DIE_HASH_SIZE |-> NoEntry],
                   address_size |-> 0]
    /\ init = [pc |-> "file", i |-> 1, j |-> 1, ptr |-> 0, depth |-> 0,
               err |-> ""]
    /\ hist = <<>>
    /\ abbrev = Idle /\ reloc = Idle /\ elf = Idle /\ finder = Idle

\* One iteration of the loop of index_cu, while fewer than MaxIterations
\* have been made.
IndexDieBounded ==
    /\ Len(hist) < MaxIterations
    /\ IndexDieStep

NextUnits ==
    \/ OpenFile \/ ReadCu \/ ReadCusReturn \/ IndexCu \/ NextFile
    \/ IndexDieBounded \/ InitReturn

SpecUnits == InitUnits /\ [][NextUnits]_vars

(***************************************************************************)
(* Properties of DwarfIndex_init on such files.                            *)
(***************************************************************************)
\* The unit that iteration k of the DIE loop belongs to.
UnitOf(k) == index.files[hist[k].file].cus[hist[k].cu]

\* The occupied slots of the hash table.
Occupied == {k \in 1..DIE_HASH_SIZE : index.die_hash[k].name # NullName}

\* The declaration that the abbreviation code of the DIE of an entry
\* selects in the unit of the entry.
DeclOf(entry) ==
    LET file == index.files[entry.cu[1]]
        cu == file.cus[entry.cu[2]]
    IN  file.debug_abbrev[cu.debug_abbrev_offset
                          + file.debug_info[entry.ptr + 1]]

\* C11: every entry of the hash table has the tag that the abbreviation of
\* its DIE declares, and that tag is one of the seven indexed tags, whatever
\* the address_size byte of the unit.
C11_TagIsDeclaredTag ==
    \A k \in Occupied :
        /\ index.die_hash[k].tag = DeclOf(index.die_hash[k]).tag
        /\ index.die_hash[k].tag \in IndexedTags

\* Iteration k ended the DIE loop with success: a null entry brought the
\* depth to 0, or a DIE without children was read at depth 0.
ExitOf(k) ==
    IF hist[k].die.code = 0 THEN hist[k].depth = 1
    ELSE hist[k].die.children = 0 /\ hist[k].depth = 0

Exits == {k \in 1..Len(hist) : ExitOf(k)}

\* The unit of iteration k was encoded from a tree of DIEs.
Sound(k) == index.files[hist[k].file].trees[hist[k].cu] # <<>>

\* C12 as stated: whenever index_cu returns success for a unit, its read
\* position is the end of the unit.
C12_ExitAtEnd ==
    \A k \in Exits : hist[k].die.ptr = CuEnd(UnitOf(k))

\* C12, amended: whenever index_cu returns success for a unit, its read
\* position is at or before the end of the unit, and it is the end of the
\* unit when the unit holds the tree of its unit DIE and nothing else.
C12_ExitWithinUnit ==
    \A k \in Exits :
        /\ hist[k].die.ptr <= CuEnd(UnitOf(k))
        /\ Sound(k) => hist[k].die.ptr = CuEnd(UnitOf(k))

\* index_cu has returned success at the end of a unit that holds one tree,
\* and before the end of a unit with bytes after its childless unit DIE.
C12_Witness ==
    /\ \E k \in Exits : Sound(k) /\ hist[k].die.ptr = CuEnd(UnitOf(k))
    /\ \E k \in Exits :
          /\ hist[k].die.code # 0
          /\ hist[k].die.ptr < CuEnd(UnitOf(k))

\* The units that read_cus has recorded, as <<file, unit>> pairs.
Recorded ==
    {fj \in (1..Len(index.files)) \X (1..2) :
        fj[2] <= Len(index.files[fj[1]].cus)}

\* C14: every unit that read_cus records ends inside .debug_info, and
\* index_cu never reads a byte at or after the end of .debug_info.
C14_UnitsInsideSection ==
    /\ \A fj \in Recorded :
          CuEnd(index.files[fj[1]].cus[fj[2]])
              <= Len(index.files[fj[1]].debug_info)
    /\ ~(init.pc = "oob" /\ init.err = "oob")

\* index_cu has read after the end of .debug_info, in a unit that read_cus
\* recorded with an end after the end of the section.
C14_Witness ==
    /\ init.pc = "oob" /\ init.err = "oob"
    /\ CuEnd(index.files[init.i].cus[init.j])
          > Len(index.files[init.i].debug_info)

\* The bytes s hold a NUL at offset off or after it, before offset end.
NulWithin(s, off, end) == \E k \in off + 1..end : k <= Len(s) /\ s[k] = 0

\* C15: the name of every occupied slot is a NUL-terminated string inside
\* .debug_str (a DW_FORM_strp offset below the size of the section) or
\* inside .debug_info before the end of its unit, and the loop of name_hash
\* never leaves the mapping.
C15_NamesInsideSections ==
    /\ \A k \in Occupied :
          LET entry == index.die_hash[k]
              file == index.files[entry.cu[1]]
          IN  IF entry.name.sec = "str"
              THEN /\ entry.name.off < Len(file.debug_str)
                   /\ NulWithin(file.debug_str, entry.name.off,
                                Len(file.debug_str))
              ELSE NulWithin(file.debug_info, entry.name.off,
                             CuEnd(file.cus[entry.cu[2]]))
    /\ ~(init.pc = "oob" /\ init.err = "oob_str")

\* A slot holds a name pointer to the end of .debug_str.
C15_Witness ==
    \E k \in Occupied :
        /\ index.die_hash[k].name.sec = "str"
        /\ index.die_hash[k].name.off
              = Len(index.files[index.die_hash[k].cu[1]].debug_str)

\* C16: index_cu terminates: in the iterations of the DIE loop over one
\* unit, each iteration begins after the one before it, and no iteration
\* begins at a position and a depth at which an earlier one began.
C16_IterationsMoveForward ==
    /\ \A k \in 1..Len(hist) - 1 :
          (hist[k].file = hist[k + 1].file /\ hist[k].cu = hist[k + 1].cu)
              => hist[k + 1].die.die_ptr > hist[k].die.die_ptr
    /\ \A k, m \in 1..Len(hist) :
          (k < m /\ hist[k].file = hist[m].file /\ hist[k].cu = hist[m].cu)
              => <<hist[k].die.die_ptr, hist[k].depth>>
                     # <<hist[m].die.die_ptr, hist[m].depth>>

\* The DIE loop has begun three iterations at the same position and depth
\* and is about to begin the next one there.
C16_Witness ==
    /\ init.pc = "die"
    /\ \E k \in 1..Len(hist) - 2 :
          \A m \in k..k + 2 :
              /\ hist[m].file = init.i /\ hist[m].cu = init.j
              /\ hist[m].die.die_ptr = init.ptr
              /\ hist[m].depth = init.depth

\* C17: a null entry is only read at depth 1 or more, and the DIE loop never
\* goes on with the depth that the decrement of 0 gives.
C17_DepthNeverBelowZero ==
    /\ \A k \in 1..Len(hist) : hist[k].die.code = 0 => hist[k].depth >= 1
    /\ ~(init.pc = "die" /\ init.depth = Pow2(UIntBits) - 1)

\* The DIE loop goes on after a null entry read at depth 0, with the depth
\* wrapped around.
C17_Witness ==
    /\ init.pc = "die"
    /\ init.depth = Pow2(UIntBits) - 1
    /\ hist # <<>>
    /\ hist[Len(hist)].die.code = 0
    /\ hist[Len(hist)].depth = 0

=============================================================================
